---- MODULE Spec2Model ----
(***************************************************************************)
(* DealAnalyzer: the deal evaluator (python_modules/deal_analyzer.py), the *)
(* criteria file it reads (python_modules/criteria_manager.py) and the     *)
(* command-line driver that feeds it (python_modules/main.py).             *)
(*                                                                         *)
(* Numbers.  Python floats are modelled by exact arithmetic on two kinds   *)
(* of value: an amount of money is an integer number of cents, and a       *)
(* dimensionless ratio (a percentage, a return, an occupancy rate) is a    *)
(* fraction [n, d] in lowest terms with d > 0.  A product or quotient that *)
(* yields money is rounded to the nearest cent; on the inputs enumerated   *)
(* below every such product is a whole number of cents, except the         *)
(* annuity payment.  The optional values of Python (None) are modelled as  *)
(* sequences: << >> is None and <<v>> is the value v.                      *)
(***************************************************************************)
EXTENDS Integers, Sequences, FiniteSets, TLC

VARIABLES
    criteria_file,    \* investment_criteria.md
    property_info,    \* the listing main() is given (parsed, or re-submitted)
    additional_data,  \* the --data-file content
    pc,               \* where the run of main() is: start, exit0, exit1
    property_data,    \* main(): the Property after the merge
    criteria,         \* analyze_deal(): the criteria line 5 loaded
    deal_analysis,    \* main(): what analyze_deal returned or raised
    previous,         \* the run before this one: its Property and its outcome
    updates,          \* the calls of update_investment_criteria so far
    upload,           \* the text or file handed to the extraction
    extraction,       \* what the extraction returned or raised
    earlier,          \* what the extractions of the same upload returned before
    raw_type,         \* the argument of normalize_property_type
    normalized_type   \* what normalize_property_type returned

analysis_vars ==
    << criteria_file, property_info, additional_data, pc, property_data, criteria,
       deal_analysis, previous, updates >>

extraction_vars == << upload, extraction, earlier, raw_type, normalized_type >>

vars == << analysis_vars, extraction_vars >>

(***************************************************************************)
(* Arithmetic                                                              *)
(***************************************************************************)
Abs(x) == IF x < 0 THEN -x ELSE x

Sgn(x) == IF x < 0 THEN -1 ELSE 1

RECURSIVE GCD(_, _)
GCD(a, b) == IF b = 0 THEN a ELSE GCD(b, a % b)

\* the fraction n/d in lowest terms, d made positive (d # 0)
Rat(n, d) ==
    LET g == GCD(Abs(n), Abs(d))
    IN  [n |-> Sgn(d) * (n \div g), d |-> Abs(d) \div g]

Zero == Rat(0, 1)

RatAdd(a, b) == Rat(a.n * b.d + b.n * a.d, a.d * b.d)

RatDivInt(a, k) == Rat(a.n, a.d * k)

RatLe(a, b) == a.n * b.d <= b.n * a.d

RatLt(a, b) == a.n * b.d < b.n * a.d

\* q and r with a * b = q * c + r and 0 <= r < c, for a, b >= 0 and c > 0,
\* computed bit by bit of b so that no intermediate product leaves 32 bits
RECURSIVE MulDivMod(_, _, _)
MulDivMod(a, b, c) ==
    IF b = 0 THEN [q |-> 0, r |-> 0]
    ELSE LET h == MulDivMod(a, b \div 2, c)
             t == 2 * h.r + (IF b % 2 = 1 THEN a % c ELSE 0)
         IN  [q |-> 2 * h.q + (IF b % 2 = 1 THEN a \div c ELSE 0) + (t \div c),
              r |-> t % c]

\* a * b / c rounded to the nearest integer, halves away from zero (c > 0)
MulDiv(a, b, c) ==
    IF a = 0 \/ b = 0 THEN 0
    ELSE LET m == MulDivMod(Abs(a), Abs(b), c)
             v == m.q + (IF 2 * m.r >= c THEN 1 ELSE 0)
         IN  Sgn(a) * Sgn(b) * v

\* money * ratio -> money
Scale(m, r) == MulDiv(m, r.n, r.d)

(***************************************************************************)
(* Optional values                                                         *)
(***************************************************************************)
None == << >>

Some(v) == <<v>>

IsNone(x) == x = << >>

Val(x) == x[1]

\* Python truthiness of an Optional[float]: None and 0 are both false
Truthy(x) == ~IsNone(x) /\ Val(x) # 0

(***************************************************************************)
(* The criteria file investment_criteria.md.  The file is held line by     *)
(* line: each field is None when the file has no text the loader's pattern *)
(* for that line matches, and otherwise holds what the text says (whole    *)
(* numbers of dollars or of percent, as written).  The Property Types line *)
(* is held as the list of tags its text cleans to.                         *)
(***************************************************************************)
\* \d{1,2}: one or two digits
TwoDigits(x) == x \in 0..99

AllTwoDigits(t) == \A i \in DOMAIN t : TwoDigits(t[i])

EmptyDict == << >>

Has(dict, key) == key \in DOMAIN dict

\* "$" then \d{1,3}(?:,\d{3})* : the amount the text shows must be unsigned
price_match(file) == ~IsNone(file.max_purchase_price) /\ Val(file.max_purchase_price) >= 0

coc_match(file) == ~IsNone(file.coc) /\ AllTwoDigits(Val(file.coc))

cap_match(file) == ~IsNone(file.cap) /\ AllTwoDigits(Val(file.cap))

Percent(x) == Rat(x, 100)

Cents(dollars) == 100 * dollars

load_investment_criteria(file) ==
       (IF ~IsNone(file.property_types)
          THEN "property_types" :> Val(file.property_types) ELSE EmptyDict)
    @@ (IF ~IsNone(file.location)
          THEN "location" :> Val(file.location) ELSE EmptyDict)
    @@ (IF price_match(file)
          THEN "max_purchase_price" :> Cents(Val(file.max_purchase_price)) ELSE EmptyDict)
    @@ (IF ~IsNone(file.downpayment)
          THEN "downpayment_percentage_min" :> Percent(Val(file.downpayment)[1])
            @@ "downpayment_percentage_max" :> Percent(Val(file.downpayment)[2])
          ELSE EmptyDict)
    @@ (IF ~IsNone(file.closing_costs)
          THEN "closing_costs_percentage_min" :> Percent(Val(file.closing_costs)[1])
            @@ "closing_costs_percentage_max" :> Percent(Val(file.closing_costs)[2])
          ELSE EmptyDict)
    @@ (IF ~IsNone(file.initial_fixed_costs)
          THEN "initial_fixed_costs_percentage" :> Percent(Val(file.initial_fixed_costs))
          ELSE EmptyDict)
    @@ (IF ~IsNone(file.maintenance_reserve)
          THEN "maintenance_reserve_percentage" :> Percent(Val(file.maintenance_reserve))
          ELSE EmptyDict)
    @@ (IF coc_match(file)
          THEN "coc_benchmark_min" :> Percent(Val(file.coc)[1])
            @@ "coc_benchmark_max" :> Percent(Val(file.coc)[2])
            @@ "coc_minimum_min" :> Percent(Val(file.coc)[3])
            @@ "coc_minimum_max" :> Percent(Val(file.coc)[4])
          ELSE EmptyDict)
    @@ (IF cap_match(file)
          THEN "cap_benchmark_min" :> Percent(Val(file.cap)[1])
            @@ "cap_benchmark_max" :> Percent(Val(file.cap)[2])
            @@ "cap_minimum" :> Percent(Val(file.cap)[3])
          ELSE EmptyDict)
    @@ (IF ~IsNone(file.str_adr)
          THEN "str_adr_minimum" :> Cents(Val(file.str_adr)) ELSE EmptyDict)
    @@ (IF ~IsNone(file.str_occupancy)
          THEN "str_occupancy_rate_minimum" :> Percent(Val(file.str_occupancy)) ELSE EmptyDict)
    @@ (IF ~IsNone(file.str_yield)
          THEN "str_gross_yield_minimum" :> Percent(Val(file.str_yield)) ELSE EmptyDict)
    @@ (IF ~IsNone(file.str_revenue)
          THEN "str_annual_revenue_minimum" :> Cents(Val(file.str_revenue)) ELSE EmptyDict)

(***************************************************************************)
(* analyze_deal, deal_analyzer.py.  The operators below carry the names of *)
(* the local variables they compute; analyze_deal binds them in the order  *)
(* of the source.                                                          *)
(***************************************************************************)
\* (criteria[min] + criteria[max]) / 2
\* mutant: the low end of the range instead of its mean
low_percentage(lo, hi) == lo

mean_percentage(lo, hi) == RatDivInt(RatAdd(lo, hi), 2)

\* monthly_rent >= purchase_price * 0.01, compared exactly
\* mutant: a rent of exactly one percent fails
passes_1_percent_rule_strictly(p) == 100 * p.monthly_rent > p.purchase_price

passes_1_percent_rule(p) == 100 * p.monthly_rent >= p.purchase_price

annual_interest_rate == Rat(7, 100)

monthly_interest_rate == RatDivInt(annual_interest_rate, 12)

number_of_payments == 30 * 12

\* fixed-point unit in which the growth factor (1 + r)^n is carried
FixedOne == 10 ^ 8

\* fixed-point unit of the payment per unit of loan
FactorOne == 10 ^ 8

\* (1 + monthly_interest_rate) ** k in units of 1 / FixedOne, by squaring
RECURSIVE Compound(_)
Compound(k) ==
    IF k = 0 THEN FixedOne
    ELSE LET half == Compound(k \div 2)
             square == MulDiv(half, half, FixedOne)
         IN  IF k % 2 = 1
               THEN Scale(square, RatAdd(Rat(1, 1), monthly_interest_rate))
               ELSE square

GrowthFactor == Compound(number_of_payments)

\* r (1 + r)^n / ((1 + r)^n - 1), in units of 1 / FactorOne
AnnuityFactor ==
    Scale(MulDiv(GrowthFactor, FactorOne, GrowthFactor - FixedOne), monthly_interest_rate)

monthly_mortgage_payment(loan_amount) ==
    IF RatLt(Zero, monthly_interest_rate)
      THEN MulDiv(loan_amount, AnnuityFactor, FactorOne)
      ELSE MulDiv(loan_amount, 1, number_of_payments)

\* mutant: the annual tax taken as the monthly one
estimated_property_tax_annual(p) == MulDiv(p.purchase_price, 12, 1000)

\* purchase_price * 0.012 / 12
estimated_property_tax(p) == MulDiv(p.purchase_price, 12, 1000 * 12)

estimated_insurance == 10000

estimated_vacancy(p) == Scale(p.monthly_rent, Rat(5, 100))

estimated_property_management(p) == Scale(p.monthly_rent, Rat(10, 100))

\* mutant: a cash flow of exactly 0 counts as positive
cash_flow_not_negative(cash_flow) == cash_flow >= 0

cash_flow_positive(cash_flow) == cash_flow > 0

\* mutant: only a total of exactly 0 is guarded
coc_return_guarding_zero_only(annual_cash_flow, total_cash_needed) ==
    IF total_cash_needed # 0 THEN Rat(annual_cash_flow, total_cash_needed) ELSE Zero

coc_return(annual_cash_flow, total_cash_needed) ==
    IF total_cash_needed > 0 THEN Rat(annual_cash_flow, total_cash_needed) ELSE Zero

coc_meets_benchmark(coc, c) ==
    RatLe(c["coc_benchmark_min"], coc) /\ RatLe(coc, c["coc_benchmark_max"])

\* mutant: the minimum is a floor, as it is for the cap rate
coc_meets_minimum_floor_only(coc, c) == RatLe(c["coc_minimum_min"], coc)

coc_meets_minimum(coc, c) ==
    RatLe(c["coc_minimum_min"], coc) /\ RatLe(coc, c["coc_minimum_max"])

cap_rate(net_operating_income, purchase_price) ==
    IF purchase_price > 0 THEN Rat(net_operating_income, purchase_price) ELSE Zero

cap_meets_benchmark(cap, c) ==
    RatLe(c["cap_benchmark_min"], cap) /\ RatLe(cap, c["cap_benchmark_max"])

cap_meets_minimum(cap, c) == RatLe(c["cap_minimum"], cap)

\* mutant: the branch also waits for a positive price
str_branch_needing_price(p) ==
    ~IsNone(p.adr) /\ ~IsNone(p.occupancy_rate) /\ p.purchase_price > 0

\* line 96: the STR branch runs
str_branch(p) == ~IsNone(p.adr) /\ ~IsNone(p.occupancy_rate)

days_per_year == 365

\* adr * (days_per_year * occupancy_rate)
projected_annual_revenue(p) ==
    MulDiv(Val(p.adr), days_per_year * Val(p.occupancy_rate).n, Val(p.occupancy_rate).d)

\* stays None when purchase_price <= 0 (line 103)
projected_gross_yield(p, revenue) ==
    IF p.purchase_price > 0 THEN Some(Rat(revenue, p.purchase_price)) ELSE None

\* "x if x else estimate": the override is used when it is truthy
OrElse(x, estimate) == IF Truthy(x) THEN Val(x) ELSE estimate

\* lines 107-126: the value bound to total_monthly_expenses in the STR branch
str_total_monthly_expenses(p, mortgage, revenue) ==
    LET monthly_property_tax == OrElse(p.property_taxes, estimated_property_tax(p))
        monthly_insurance == OrElse(p.insurance, estimated_insurance)
        monthly_utilities == OrElse(p.utilities, 15000)
        monthly_management == OrElse(p.management, MulDiv(revenue, 15, 100 * 12))
        monthly_maintenance == OrElse(p.maintenance, MulDiv(revenue, 5, 100 * 12))
        monthly_cleaning ==
            OrElse(p.cleaning, Scale(7500 * 30, Val(p.occupancy_rate)))
        monthly_supplies == OrElse(p.supplies, 5000)
        monthly_other == OrElse(p.other_expenses, 0)
    IN  mortgage + monthly_property_tax + monthly_insurance + monthly_utilities
            + monthly_management + monthly_maintenance + monthly_cleaning
            + monthly_supplies + monthly_other

\* line 137 compares None with a float: a TypeError
yield_comparison_raises(p, c) ==
    str_branch(p) /\ Has(c, "str_gross_yield_minimum") /\ p.purchase_price <= 0

\* mutant: an ADR equal to its threshold fails
str_meets_criteria_strict_adr(p, c, revenue, yield) ==
    /\ ~(Has(c, "str_adr_minimum") /\ Val(p.adr) <= c["str_adr_minimum"])
    /\ ~(Has(c, "str_occupancy_rate_minimum")
            /\ RatLt(Val(p.occupancy_rate), c["str_occupancy_rate_minimum"]))
    /\ ~(Has(c, "str_gross_yield_minimum")
            /\ RatLt(Val(yield), c["str_gross_yield_minimum"]))
    /\ ~(Has(c, "str_annual_revenue_minimum")
            /\ revenue < c["str_annual_revenue_minimum"])

\* lines 132-140, where line 137 does not raise
str_meets_criteria(p, c, revenue, yield) ==
    /\ ~(Has(c, "str_adr_minimum") /\ Val(p.adr) < c["str_adr_minimum"])
    /\ ~(Has(c, "str_occupancy_rate_minimum")
            /\ RatLt(Val(p.occupancy_rate), c["str_occupancy_rate_minimum"]))
    /\ ~(Has(c, "str_gross_yield_minimum")
            /\ RatLt(Val(yield), c["str_gross_yield_minimum"]))
    /\ ~(Has(c, "str_annual_revenue_minimum")
            /\ revenue < c["str_annual_revenue_minimum"])

InList(x, list) == \E i \in DOMAIN list : list[i] = x

\* mutant: the verdict without lines 154-155
meets_criteria_without_str(p, c, one_percent, positive, coc_minimum, cap_minimum, str) ==
    /\ InList(p.property_type, c["property_types"])
    /\ p.state = c["location"]
    /\ p.purchase_price <= c["max_purchase_price"]
    /\ one_percent
    /\ positive
    /\ coc_minimum
    /\ cap_minimum

\* lines 143-155; str is str_meets_criteria, None when the branch did not run
meets_criteria(p, c, one_percent, positive, coc_minimum, cap_minimum, str) ==
    /\ InList(p.property_type, c["property_types"])
    /\ p.state = c["location"]
    /\ p.purchase_price <= c["max_purchase_price"]
    /\ one_percent
    /\ positive
    /\ coc_minimum
    /\ cap_minimum
    /\ (~IsNone(str) => Val(str))

\* the keys lines 8-87 subscript, in the order they are read (the two ends of
\* a range come from one pattern of the loader, so neither is ever alone)
CalculationKeys ==
    << "downpayment_percentage_min", "downpayment_percentage_max",
       "closing_costs_percentage_min", "closing_costs_percentage_max",
       "initial_fixed_costs_percentage", "maintenance_reserve_percentage",
       "coc_benchmark_min", "coc_benchmark_max", "coc_minimum_min", "coc_minimum_max",
       "cap_benchmark_min", "cap_benchmark_max", "cap_minimum" >>

\* the first key of keys that c lacks, None when it has them all
FirstMissing(c, keys) ==
    LET missing == {i \in DOMAIN keys : ~Has(c, keys[i])}
    IN  IF missing = {} THEN None
        ELSE Some(keys[CHOOSE i \in missing : \A j \in missing : i <= j])

\* mutant: every operand of lines 144-146 is evaluated
VerdictKeysAllRead(p, c) == << "property_types", "location", "max_purchase_price" >>

\* the keys lines 144-146 subscript: "and" stops at the first false operand
VerdictKeys(p, c) ==
    IF ~Has(c, "property_types") THEN << "property_types" >>
    ELSE IF ~InList(p.property_type, c["property_types"]) THEN << "property_types" >>
    ELSE IF ~Has(c, "location") \/ p.state # c["location"]
      THEN << "property_types", "location" >>
      ELSE << "property_types", "location", "max_purchase_price" >>

Raise(exception, what) == [kind |-> "raise", exception |-> exception, what |-> what]

Return(value) == [kind |-> "return", value |-> value]

\* mutant: the downpayment is the percentage the Property carries
own_downpayment_percentage(p, c) == p.downpayment_percentage

\* line 8: the downpayment percentage applied to the Property p, which the
\* line takes from the criteria alone
downpayment_percentage_used(p, c) ==
    mean_percentage(c["downpayment_percentage_min"], c["downpayment_percentage_max"])

\* lines 7-179, for criteria that hold every key the lines read
DealAnalysis(p, c) ==
    LET downpayment_percentage == downpayment_percentage_used(p, c)
        closing_costs_percentage ==
            mean_percentage(c["closing_costs_percentage_min"],
                            c["closing_costs_percentage_max"])
        calculated_downpayment == Scale(p.purchase_price, downpayment_percentage)
        calculated_closing_costs == Scale(p.purchase_price, closing_costs_percentage)
        calculated_initial_fixed_costs ==
            Scale(p.purchase_price, c["initial_fixed_costs_percentage"])
        estimated_maintenance_reserve ==
            Scale(p.monthly_rent, c["maintenance_reserve_percentage"])
        total_cash_needed ==
            calculated_downpayment + calculated_closing_costs
                + calculated_initial_fixed_costs
        loan_amount == p.purchase_price - calculated_downpayment
        mortgage == monthly_mortgage_payment(loan_amount)
        total_monthly_expenses ==
            mortgage + estimated_property_tax(p) + estimated_insurance
                + estimated_vacancy(p) + estimated_maintenance_reserve
                + estimated_property_management(p)
        cash_flow == p.monthly_rent - total_monthly_expenses
        annual_cash_flow == cash_flow * 12
        coc == coc_return(annual_cash_flow, total_cash_needed)
        annual_gross_rent == p.monthly_rent * 12
        annual_operating_expenses ==
            estimated_maintenance_reserve * 12 + estimated_property_tax(p) * 12
                + estimated_insurance * 12 + estimated_vacancy(p) * 12
                + estimated_property_management(p) * 12
        net_operating_income == annual_gross_rent - annual_operating_expenses
        cap == cap_rate(net_operating_income, p.purchase_price)
        revenue == projected_annual_revenue(p)
        yield == projected_gross_yield(p, revenue)
        str_expenses == str_total_monthly_expenses(p, mortgage, revenue)
        str == IF str_branch(p) THEN Some(str_meets_criteria(p, c, revenue, yield))
               ELSE None
        coc_minimum == coc_meets_minimum(coc, c)
        cap_minimum == cap_meets_minimum(cap, c)
    IN  [ property |-> p,
          calculated_downpayment |-> calculated_downpayment,
          calculated_closing_costs |-> calculated_closing_costs,
          calculated_initial_fixed_costs |-> calculated_initial_fixed_costs,
          estimated_maintenance_reserve |-> estimated_maintenance_reserve,
          total_cash_needed |-> total_cash_needed,
          passes_1_percent_rule |-> passes_1_percent_rule(p),
          cash_flow |-> cash_flow,
          cash_flow_positive |-> cash_flow_positive(cash_flow),
          coc_return |-> coc,
          coc_meets_benchmark |-> coc_meets_benchmark(coc, c),
          coc_meets_minimum |-> coc_minimum,
          cap_rate |-> cap,
          cap_meets_benchmark |-> cap_meets_benchmark(cap, c),
          cap_meets_minimum |-> cap_minimum,
          projected_annual_revenue |-> IF str_branch(p) THEN Some(revenue) ELSE None,
          projected_gross_yield |-> IF str_branch(p) THEN yield ELSE None,
          total_monthly_expenses |-> IF str_branch(p) THEN Some(str_expenses) ELSE None,
          str_net_income |->
              IF str_branch(p) THEN Some(MulDiv(revenue, 1, 12) - str_expenses) ELSE None,
          str_meets_criteria |-> str,
          meets_criteria |->
              meets_criteria(p, c, passes_1_percent_rule(p),
                             cash_flow_positive(cash_flow), coc_minimum, cap_minimum, str) ]

\* mutant: total_cash_needed accumulates in a module-level variable over the
\* evaluations of one process
analyze_deal_accumulating(p, c) ==
    IF ~IsNone(FirstMissing(c, CalculationKeys))
      THEN Raise("KeyError", Val(FirstMissing(c, CalculationKeys)))
    ELSE IF yield_comparison_raises(p, c)
      THEN Raise("TypeError", "projected_gross_yield")
    ELSE IF ~IsNone(FirstMissing(c, VerdictKeys(p, c)))
      THEN Raise("KeyError", Val(FirstMissing(c, VerdictKeys(p, c))))
    ELSE IF ~IsNone(previous) /\ Val(previous).outcome.kind = "return"
      THEN Return([DealAnalysis(p, c) EXCEPT !.total_cash_needed =
                      @ + Val(previous).outcome.value.total_cash_needed])
    ELSE Return(DealAnalysis(p, c))

\* analyze_deal with the criteria line 5 loaded: what it returns or raises
analyze_deal(p, c) ==
    IF ~IsNone(FirstMissing(c, CalculationKeys))
      THEN Raise("KeyError", Val(FirstMissing(c, CalculationKeys)))
    ELSE IF yield_comparison_raises(p, c)
      THEN Raise("TypeError", "projected_gross_yield")
    ELSE IF ~IsNone(FirstMissing(c, VerdictKeys(p, c)))
      THEN Raise("KeyError", Val(FirstMissing(c, VerdictKeys(p, c))))
    ELSE Return(DealAnalysis(p, c))

(***************************************************************************)
(* main.py: the Property built from the parsed or re-submitted listing,    *)
(* and the merge of the additional data file into it.                      *)
(***************************************************************************)
ExpenseLines ==
    { "property_taxes", "insurance", "utilities", "management",
      "maintenance", "cleaning", "supplies", "other" }

\* the dataclass with its defaults; info carries the fields main() supplies
Property(info) ==
    [ property_type |-> info.property_type,
      state |-> info.state,
      purchase_price |-> info.purchase_price,
      monthly_rent |-> info.monthly_rent,
      downpayment_percentage |-> Rat(20, 100),
      closing_costs_percentage |-> Rat(5, 100),
      initial_fixed_costs_percentage |-> Rat(1, 100),
      maintenance_reserve_percentage |-> Rat(5, 100),
      adr |-> None,
      occupancy_rate |-> None,
      property_taxes |-> None,
      insurance |-> None,
      utilities |-> None,
      management |-> None,
      maintenance |-> None,
      cleaning |-> None,
      supplies |-> None,
      other_expenses |-> None ]

\* "if d.get(key): target = d[key]": a missing key, and a zero, leave old
Merged(old, supplied) == IF Truthy(supplied) THEN supplied ELSE old

\* x.get(k) of a ratio: zero is falsy
TruthyRatio(x) == ~IsNone(x) /\ Val(x).n # 0

merge_additional_data(p, data) ==
    [ p EXCEPT
        !.adr = Merged(@, data.str_metrics.adr),
        !.occupancy_rate =
            IF TruthyRatio(data.str_metrics.occupancy_rate)
              THEN data.str_metrics.occupancy_rate ELSE @,
        !.property_taxes = Merged(@, data.monthly_expenses.property_taxes),
        !.insurance = Merged(@, data.monthly_expenses.insurance),
        !.utilities = Merged(@, data.monthly_expenses.utilities),
        !.management = Merged(@, data.monthly_expenses.management),
        !.maintenance = Merged(@, data.monthly_expenses.maintenance),
        !.cleaning = Merged(@, data.monthly_expenses.cleaning),
        !.supplies = Merged(@, data.monthly_expenses.supplies),
        !.other_expenses = Merged(@, data.monthly_expenses.other) ]

(***************************************************************************)
(* update_investment_criteria, criteria_manager.py                         *)
(***************************************************************************)
\* format(x, ".0f"): the nearest integer, a tie going to the even one
RoundRat(r) ==
    LET q == r.n \div r.d
        twice == 2 * (r.n - q * r.d)
    IN  IF twice < r.d THEN q
        ELSE IF twice > r.d THEN q + 1
        ELSE IF q % 2 = 0 THEN q ELSE q + 1

\* f"{x*100:.0f}"
PercentText(x) == RoundRat(Rat(x.n * 100, x.d))

\* the file after lines 84-109 (each re.sub rewrites the line only where its
\* pattern finds the old text)
update_investment_criteria(file, new_criteria) ==
    LET f1 == IF ~IsNone(new_criteria.price_max) /\ price_match(file)
                THEN [file EXCEPT !.max_purchase_price =
                          Some(RoundRat(Val(new_criteria.price_max)))]
                ELSE file
        f2 == IF ~IsNone(new_criteria.coc_return_min)
                    /\ ~IsNone(new_criteria.coc_return_max) /\ coc_match(f1)
                THEN [f1 EXCEPT !.coc =
                          Some(<< PercentText(Val(new_criteria.coc_return_max)),
                                  PercentText(Val(new_criteria.coc_return_max)),
                                  PercentText(Val(new_criteria.coc_return_min)),
                                  PercentText(Val(new_criteria.coc_return_max)) >>)]
                ELSE f1
        f3 == IF ~IsNone(new_criteria.cap_rate_min)
                    /\ ~IsNone(new_criteria.cap_rate_max) /\ cap_match(f2)
                THEN [f2 EXCEPT !.cap =
                          Some(<< PercentText(Val(new_criteria.cap_rate_max)),
                                  PercentText(Val(new_criteria.cap_rate_max)),
                                  PercentText(Val(new_criteria.cap_rate_min)) >>)]
                ELSE f2
    IN  f3

\* the path of the criteria file, the only file there is
CriteriaPath == "investment_criteria.md"

\* lines 78-114: what the call returns and the criteria file it leaves.  The
\* open of line 80 raises for a path that names no file, and line 113 turns
\* the exception into the result
update_result(filepath, file, new_criteria) ==
    IF filepath = CriteriaPath
      THEN [success |-> TRUE, file |-> update_investment_criteria(file, new_criteria)]
      ELSE [success |-> FALSE, file |-> file]

(***************************************************************************)
(* Text.  A str is the sequence of its characters; the methods of str the  *)
(* parsers call are defined on such sequences.                             *)
(***************************************************************************)
UpperCase == << "A", "B", "C", "D", "E", "F", "G", "H", "I", "J", "K", "L", "M", "N", "O", "P", "Q", "R", "S", "T", "U", "V", "W", "X", "Y", "Z" >>

LowerCase == << "a", "b", "c", "d", "e", "f", "g", "h", "i", "j", "k", "l", "m", "n", "o", "p", "q", "r", "s", "t", "u", "v", "w", "x", "y", "z" >>

Index(c, alphabet) == CHOOSE i \in DOMAIN alphabet : alphabet[i] = c

IsIn(c, alphabet) == \E i \in DOMAIN alphabet : alphabet[i] = c

\* str.lower
lower(text) ==
    [i \in DOMAIN text |->
        IF IsIn(text[i], UpperCase) THEN LowerCase[Index(text[i], UpperCase)] ELSE text[i]]

\* str.upper
upper(text) ==
    [i \in DOMAIN text |->
        IF IsIn(text[i], LowerCase) THEN UpperCase[Index(text[i], LowerCase)] ELSE text[i]]

\* the characters str.strip and str.split take for blanks
Whitespace == {" ", "\t", "\n", "\r"}

RECURSIVE lstrip(_)
lstrip(text) ==
    IF text # << >> /\ Head(text) \in Whitespace THEN lstrip(Tail(text)) ELSE text

RECURSIVE rstrip(_)
rstrip(text) ==
    IF text # << >> /\ text[Len(text)] \in Whitespace
      THEN rstrip(SubSeq(text, 1, Len(text) - 1))
      ELSE text

\* str.strip
strip(text) == rstrip(lstrip(text))

\* word in text
Contains(word, text) ==
    \E i \in 1..(Len(text) - Len(word) + 1) : SubSeq(text, i, i + Len(word) - 1) = word

\* text.replace(old, new) for single characters
replace(text, old, new) == [i \in DOMAIN text |-> IF text[i] = old THEN new ELSE text[i]]

(***************************************************************************)
(* Text to numbers and to parts: float(), int(), str.split.                *)
(***************************************************************************)
DigitChars == << "0", "1", "2", "3", "4", "5", "6", "7", "8", "9" >>

\* a run of 400 nines, written as one symbol: as a float it is inf
Nines == "9{400}"

\* float("inf")
Infinity == [n |-> 1, d |-> 0]

IsInfinite(x) == x.d = 0

\* text.replace(c, "")
RECURSIVE Remove(_, _)
Remove(text, c) ==
    IF text = << >> THEN << >>
    ELSE IF Head(text) = c THEN Remove(Tail(text), c)
    ELSE << Head(text) >> \o Remove(Tail(text), c)

\* the first position at which sep occurs in text, 0 when it does not
Find(sep, text) ==
    LET at == {i \in 1..(Len(text) - Len(sep) + 1) : SubSeq(text, i, i + Len(sep) - 1) = sep}
    IN  IF at = {} THEN 0 ELSE CHOOSE i \in at : \A j \in at : i <= j

\* text.split(sep)
RECURSIVE SplitOn(_, _)
SplitOn(text, sep) ==
    IF Find(sep, text) = 0 THEN << text >>
    ELSE << SubSeq(text, 1, Find(sep, text) - 1) >>
            \o SplitOn(SubSeq(text, Find(sep, text) + Len(sep), Len(text)), sep)

\* text.split(): the runs of non-blank characters
RECURSIVE Words(_)
Words(text) ==
    LET t == lstrip(text)
        blanks == {i \in DOMAIN t : t[i] \in Whitespace}
        stop == IF blanks = {} THEN 0 ELSE CHOOSE i \in blanks : \A j \in blanks : i <= j
    IN  IF t = << >> THEN << >>
        ELSE IF stop = 0 THEN << t >>
        ELSE << SubSeq(t, 1, stop - 1) >> \o Words(SubSeq(t, stop, Len(t)))

\* the number a run of digits writes
RECURSIVE DigitsValue(_)
DigitsValue(text) ==
    IF text = << >> THEN 0
    ELSE 10 * DigitsValue(SubSeq(text, 1, Len(text) - 1))
            + (Index(text[Len(text)], DigitChars) - 1)

AllDigits(text) == \A i \in DOMAIN text : IsIn(text[i], DigitChars)

RECURSIVE PowerOfTen(_)
PowerOfTen(k) == IF k = 0 THEN 1 ELSE 10 * PowerOfTen(k - 1)

\* float(text) of an unsigned text: None stands for ValueError
UnsignedFloat(text) ==
    LET dot == Find(<< "." >>, text)
        whole == IF dot = 0 THEN text ELSE SubSeq(text, 1, dot - 1)
        fraction == IF dot = 0 THEN << >> ELSE SubSeq(text, dot + 1, Len(text))
    IN  IF text = << Nines >> THEN Some(Infinity)
        ELSE IF ~AllDigits(whole) \/ ~AllDigits(fraction) THEN None
        ELSE IF whole = << >> /\ fraction = << >> THEN None
        ELSE Some(Rat(DigitsValue(whole) * PowerOfTen(Len(fraction)) + DigitsValue(fraction),
                      PowerOfTen(Len(fraction))))

Negated(x) == [n |-> -x.n, d |-> x.d]

\* float(text): surrounding blanks and one sign are accepted
ParseFloat(text) ==
    LET t == strip(text)
    IN  IF t # << >> /\ Head(t) = "-"
          THEN IF IsNone(UnsignedFloat(Tail(t))) THEN None
               ELSE Some(Negated(Val(UnsignedFloat(Tail(t)))))
        ELSE IF t # << >> /\ Head(t) = "+" THEN UnsignedFloat(Tail(t))
        ELSE UnsignedFloat(t)

\* int(text): digits with an optional sign
ParseInt(text) ==
    LET t == strip(text)
        body == IF t # << >> /\ Head(t) \in {"-", "+"} THEN Tail(t) ELSE t
    IN  IF body = << Nines >> THEN Some(Infinity)
        ELSE IF body = << >> \/ ~AllDigits(body) THEN None
        ELSE IF Head(t) = "-" THEN Some(Rat(-DigitsValue(body), 1))
        ELSE Some(Rat(DigitsValue(body), 1))

\* int(x) of a finite float: towards zero
Truncated(x) == Rat(Sgn(x.n) * (Abs(x.n) \div x.d), 1)

(***************************************************************************)
(* normalize_property_type, email_parser.py                                *)
(***************************************************************************)
single_family == << "s", "i", "n", "g", "l", "e", "-", "f", "a", "m", "i", "l", "y" >>

multi_family == << "m", "u", "l", "t", "i", "-", "f", "a", "m", "i", "l", "y" >>

townhouse == << "t", "o", "w", "n", "h", "o", "u", "s", "e" >>

condo == << "c", "o", "n", "d", "o" >>

duplex == << "d", "u", "p", "l", "e", "x" >>

triplex == << "t", "r", "i", "p", "l", "e", "x" >>

fourplex == << "f", "o", "u", "r", "p", "l", "e", "x" >>

\* the list of line 13
single_family_forms ==
    { << "s", "f", "r" >>,
      << "s", "f" >>,
      << "s", "i", "n", "g", "l", "e", " ", "f", "a", "m", "i", "l", "y", " ", "r", "e", "s", "i", "d", "e", "n", "t", "i", "a", "l" >>,
      << "s", "i", "n", "g", "l", "e", " ", "f", "a", "m", "i", "l", "y" >>,
      << "s", "i", "n", "g", "l", "e", "f", "a", "m", "i", "l", "y" >> }

\* the list of line 15
multi_family_forms ==
    { << "m", "f", "r" >>,
      << "m", "f" >>,
      << "m", "u", "l", "t", "i", " ", "f", "a", "m", "i", "l", "y", " ", "r", "e", "s", "i", "d", "e", "n", "t", "i", "a", "l" >>,
      << "m", "u", "l", "t", "i", "f", "a", "m", "i", "l", "y", " ", "r", "e", "s", "i", "d", "e", "n", "t", "i", "a", "l" >>,
      << "m", "u", "l", "t", "i", "f", "a", "m", "i", "l", "y" >>,
      << "m", "u", "l", "t", "i", " ", "f", "a", "m", "i", "l", "y" >> }

\* the list of line 21
townhouse_forms ==
    { << "t", "o", "w", "n", "h", "o", "u", "s", "e" >>,
      << "t", "o", "w", "n", "h", "o", "m", "e" >>,
      << "t", "o", "w", "n", " ", "h", "o", "m", "e" >> }

\* the list of line 23
condo_forms == { << "c", "o", "n", "d", "o" >>,
               << "c", "o", "n", "d", "o", "m", "i", "n", "i", "u", "m" >> }

\* the list of line 29
fourplex_forms == { << "f", "o", "u", "r", "p", "l", "e", "x" >>,
                  << "4", "p", "l", "e", "x" >> }

\* mutant: the text is lower-cased but keeps its surrounding blanks
normalize_property_type_unstripped(property_type) ==
    IF IsNone(property_type) \/ Val(property_type) = << >> THEN single_family
    ELSE LET normalized == lower(Val(property_type))
         IN  IF normalized \in single_family_forms THEN single_family
             ELSE IF normalized \in multi_family_forms THEN multi_family
             ELSE IF Contains(<< "s", "i", "n", "g", "l", "e" >>, normalized) /\ Contains(<< "f", "a", "m", "i", "l", "y" >>, normalized)
               THEN single_family
             ELSE IF Contains(<< "m", "u", "l", "t", "i" >>, normalized) /\ Contains(<< "f", "a", "m", "i", "l", "y" >>, normalized)
               THEN multi_family
             ELSE IF normalized \in townhouse_forms THEN townhouse
             ELSE IF normalized \in condo_forms THEN condo
             ELSE IF normalized = duplex THEN duplex
             ELSE IF normalized = triplex THEN triplex
             ELSE IF normalized \in fourplex_forms THEN fourplex
             ELSE replace(normalized, " ", "-")

\* lines 4-33; property_type is None or the text
normalize_property_type(property_type) ==
    IF IsNone(property_type) \/ Val(property_type) = << >> THEN single_family
    ELSE LET normalized == strip(lower(Val(property_type)))
         IN  IF normalized \in single_family_forms THEN single_family
             ELSE IF normalized \in multi_family_forms THEN multi_family
             ELSE IF Contains(<< "s", "i", "n", "g", "l", "e" >>, normalized) /\ Contains(<< "f", "a", "m", "i", "l", "y" >>, normalized)
               THEN single_family
             ELSE IF Contains(<< "m", "u", "l", "t", "i" >>, normalized) /\ Contains(<< "f", "a", "m", "i", "l", "y" >>, normalized)
               THEN multi_family
             ELSE IF normalized \in townhouse_forms THEN townhouse
             ELSE IF normalized \in condo_forms THEN condo
             ELSE IF normalized = duplex THEN duplex
             ELSE IF normalized = triplex THEN triplex
             ELSE IF normalized \in fourplex_forms THEN fourplex
             ELSE replace(normalized, " ", "-")

(***************************************************************************)
(* parse_email_alert, email_parser.py.  The text is held by what the       *)
(* parser's patterns capture in it: for a field read by extract_field the  *)
(* group of the first pattern that matches (None when none does), for a    *)
(* number the groups of the patterns that match, in the order of the       *)
(* pattern list, and for images and links the matches re.findall returns,  *)
(* pattern by pattern.                                                     *)
(***************************************************************************)
not_available == << "N", "/", "A" >>

default_description == << "P", "r", "o", "p", "e", "r", "t", "y", " ", "l", "i", "s", "t", "i", "n", "g", " ", "d", "e", "t", "a", "i", "l", "s" >>

state_map ==
    << << << "A", "L" >>, << "A", "l", "a", "b", "a", "m", "a" >> >>,
       << << "A", "K" >>, << "A", "l", "a", "s", "k", "a" >> >>,
       << << "A", "Z" >>, << "A", "r", "i", "z", "o", "n", "a" >> >>,
       << << "A", "R" >>, << "A", "r", "k", "a", "n", "s", "a", "s" >> >>,
       << << "C", "A" >>, << "C", "a", "l", "i", "f", "o", "r", "n", "i", "a" >> >>,
       << << "C", "O" >>, << "C", "o", "l", "o", "r", "a", "d", "o" >> >>,
       << << "C", "T" >>, << "C", "o", "n", "n", "e", "c", "t", "i", "c", "u", "t" >> >>,
       << << "D", "E" >>, << "D", "e", "l", "a", "w", "a", "r", "e" >> >>,
       << << "F", "L" >>, << "F", "l", "o", "r", "i", "d", "a" >> >>,
       << << "G", "A" >>, << "G", "e", "o", "r", "g", "i", "a" >> >>,
       << << "H", "I" >>, << "H", "a", "w", "a", "i", "i" >> >>,
       << << "I", "D" >>, << "I", "d", "a", "h", "o" >> >>,
       << << "I", "L" >>, << "I", "l", "l", "i", "n", "o", "i", "s" >> >>,
       << << "I", "N" >>, << "I", "n", "d", "i", "a", "n", "a" >> >>,
       << << "I", "A" >>, << "I", "o", "w", "a" >> >>,
       << << "K", "S" >>, << "K", "a", "n", "s", "a", "s" >> >>,
       << << "K", "Y" >>, << "K", "e", "n", "t", "u", "c", "k", "y" >> >>,
       << << "L", "A" >>, << "L", "o", "u", "i", "s", "i", "a", "n", "a" >> >>,
       << << "M", "E" >>, << "M", "a", "i", "n", "e" >> >>,
       << << "M", "D" >>, << "M", "a", "r", "y", "l", "a", "n", "d" >> >>,
       << << "M", "A" >>, << "M", "a", "s", "s", "a", "c", "h", "u", "s", "e", "t", "t", "s" >> >>,
       << << "M", "I" >>, << "M", "i", "c", "h", "i", "g", "a", "n" >> >>,
       << << "M", "N" >>, << "M", "i", "n", "n", "e", "s", "o", "t", "a" >> >>,
       << << "M", "S" >>, << "M", "i", "s", "s", "i", "s", "s", "i", "p", "p", "i" >> >>,
       << << "M", "O" >>, << "M", "i", "s", "s", "o", "u", "r", "i" >> >>,
       << << "M", "T" >>, << "M", "o", "n", "t", "a", "n", "a" >> >>,
       << << "N", "E" >>, << "N", "e", "b", "r", "a", "s", "k", "a" >> >>,
       << << "N", "V" >>, << "N", "e", "v", "a", "d", "a" >> >>,
       << << "N", "H" >>, << "N", "e", "w", " ", "H", "a", "m", "p", "s", "h", "i", "r", "e" >> >>,
       << << "N", "J" >>, << "N", "e", "w", " ", "J", "e", "r", "s", "e", "y" >> >>,
       << << "N", "M" >>, << "N", "e", "w", " ", "M", "e", "x", "i", "c", "o" >> >>,
       << << "N", "Y" >>, << "N", "e", "w", " ", "Y", "o", "r", "k" >> >>,
       << << "N", "C" >>, << "N", "o", "r", "t", "h", " ", "C", "a", "r", "o", "l", "i", "n", "a" >> >>,
       << << "N", "D" >>, << "N", "o", "r", "t", "h", " ", "D", "a", "k", "o", "t", "a" >> >>,
       << << "O", "H" >>, << "O", "h", "i", "o" >> >>,
       << << "O", "K" >>, << "O", "k", "l", "a", "h", "o", "m", "a" >> >>,
       << << "O", "R" >>, << "O", "r", "e", "g", "o", "n" >> >>,
       << << "P", "A" >>, << "P", "e", "n", "n", "s", "y", "l", "v", "a", "n", "i", "a" >> >>,
       << << "R", "I" >>, << "R", "h", "o", "d", "e", " ", "I", "s", "l", "a", "n", "d" >> >>,
       << << "S", "C" >>, << "S", "o", "u", "t", "h", " ", "C", "a", "r", "o", "l", "i", "n", "a" >> >>,
       << << "S", "D" >>, << "S", "o", "u", "t", "h", " ", "D", "a", "k", "o", "t", "a" >> >>,
       << << "T", "N" >>, << "T", "e", "n", "n", "e", "s", "s", "e", "e" >> >>,
       << << "T", "X" >>, << "T", "e", "x", "a", "s" >> >>,
       << << "U", "T" >>, << "U", "t", "a", "h" >> >>,
       << << "V", "T" >>, << "V", "e", "r", "m", "o", "n", "t" >> >>,
       << << "V", "A" >>, << "V", "i", "r", "g", "i", "n", "i", "a" >> >>,
       << << "W", "A" >>, << "W", "a", "s", "h", "i", "n", "g", "t", "o", "n" >> >>,
       << << "W", "V" >>, << "W", "e", "s", "t", " ", "V", "i", "r", "g", "i", "n", "i", "a" >> >>,
       << << "W", "I" >>, << "W", "i", "s", "c", "o", "n", "s", "i", "n" >> >>,
       << << "W", "Y" >>, << "W", "y", "o", "m", "i", "n", "g" >> >> >>

\* mapping.get(key, default) of a dict held as its pairs
get(mapping, key, default) ==
    IF \E i \in DOMAIN mapping : mapping[i][1] = key
      THEN mapping[CHOOSE i \in DOMAIN mapping : mapping[i][1] = key][2]
      ELSE default

startswith(text, prefix) == Len(text) >= Len(prefix) /\ SubSeq(text, 1, Len(prefix)) = prefix

\* any(keyword in text for keyword in keywords)
any_in(keywords, text) == \E keyword \in keywords : Contains(keyword, text)

\* lines 40-46
extract_field(capture, default) == IF IsNone(capture) THEN default ELSE strip(Val(capture))

\* lines 48-58: a group float() rejects sends the loop to the next pattern
RECURSIVE extract_price(_)
extract_price(captures) ==
    IF captures = << >> THEN Zero
    ELSE LET price_str == Remove(Remove(Head(captures), ","), "$")
         IN  IF IsNone(ParseFloat(price_str)) THEN extract_price(Tail(captures))
             ELSE Val(ParseFloat(price_str))

\* lines 60-69 with is_float=True
RECURSIVE extract_float(_)
extract_float(captures) ==
    IF captures = << >> THEN Zero
    ELSE IF IsNone(ParseFloat(Head(captures))) THEN extract_float(Tail(captures))
    ELSE Val(ParseFloat(Head(captures)))

\* lines 60-69 with is_float=False: int() of inf raises OverflowError, which
\* the except clause for ValueError does not catch
RECURSIVE extract_number(_)
extract_number(captures) ==
    IF captures = << >> THEN Return(Zero)
    ELSE IF IsNone(ParseFloat(Head(captures))) THEN extract_number(Tail(captures))
    ELSE IF IsInfinite(Val(ParseFloat(Head(captures))))
      THEN Raise("OverflowError",
               << "c", "a", "n", "n", "o", "t", " ", "c", "o", "n", "v", "e", "r", "t", " ", "f", "l", "o", "a", "t", " ", "i", "n", "f", "i", "n", "i", "t", "y", " ", "t", "o", " ", "i", "n", "t", "e", "g", "e", "r" >>)
    ELSE Return(Truncated(Val(ParseFloat(Head(captures)))))

\* the candidates extract_images puts in its set, lines 174-179
image_candidates(matches) ==
    {matches[i] : i \in {j \in DOMAIN matches : startswith(matches[j], << "h", "t", "t", "p" >>)}}

\* the orders in which list() can go through a set of strings: the order
\* follows the strings' hashes, which are salted anew in every process
Orders(candidates) ==
    {order \in [1..Cardinality(candidates) -> candidates] :
        \A i, j \in DOMAIN order : order[i] = order[j] => i = j}

FirstThree(list) == SubSeq(list, 1, IF Len(list) < 3 THEN Len(list) ELSE 3)

\* lines 172-181, for the order list(images) took
extract_images(matches, order) == FirstThree(order)

unwanted_keywords ==
    { << "u", "n", "s", "u", "b", "s", "c", "r", "i", "b", "e" >>,
      << "p", "r", "e", "f", "e", "r", "e", "n", "c", "e", "s" >>,
      << "p", "r", "i", "v", "a", "c", "y" >>,
      << "f", "e", "e", "d", "b", "a", "c", "k" >>,
      << "n", "m", "l", "s", "c", "o", "n", "s", "u", "m", "e", "r" >>,
      << "t", "e", "r", "m", "s" >>,
      << "p", "o", "l", "i", "c", "y" >>,
      << "m", "a", "n", "a", "g", "e" >>,
      << "n", "o", "t", "i", "f", "i", "c", "a", "t", "i", "o", "n" >>,
      << "e", "m", "a", "i", "l" >>,
      << "o", "p", "t", "o", "u", "t" >>,
      << "u", "n", "s", "u", "b" >>,
      << "s", "e", "t", "t", "i", "n", "g", "s" >>,
      << "t", "r", "a", "c", "k" >>,
      << "c", "l", "i", "c", "k" >>,
      << "p", "i", "x", "e", "l" >>,
      << "a", "n", "a", "l", "y", "t", "i", "c", "s" >>,
      << "c", "a", "m", "p", "a", "i", "g", "n" >>,
      << "u", "t", "m", "_" >>,
      << "r", "e", "d", "i", "r", "e", "c", "t" >>,
      << "m", "a", "i", "l", "." >>,
      << "t", "o", "k", "e", "n", "=" >>,
      << "r", "t", "o", "k", "e", "n", "=" >> }

tracking_keywords == { << "c", "l", "i", "c", "k" >>,
                       << "t", "r", "a", "c", "k" >>,
                       << "e", "m", "a", "i", "l" >>,
                       << "c", "a", "m", "p", "a", "i", "g", "n" >> }

listing_domains == { << "z", "i", "l", "l", "o", "w" >>,
                     << "r", "e", "a", "l", "t", "o", "r" >>,
                     << "r", "e", "d", "f", "i", "n" >>,
                     << "m", "l", "s" >> }

more_listing_domains == { << "t", "r", "u", "l", "i", "a" >>,
                          << "h", "o", "m", "e", "s", ".", "c", "o", "m" >>,
                          << "m", "o", "v", "o", "t", "o" >> }

company_keywords == { << "c", "o", "m", "p", "a", "n", "y" >>,
                      << "a", "g", "e", "n", "t" >>,
                      << "b", "r", "o", "k", "e", "r" >>,
                      << "r", "e", "a", "l", "t", "y" >> }

property_keywords == { << "p", "r", "o", "p", "e", "r", "t", "y" >>,
                       << "h", "o", "m", "e" >>,
                       << "h", "o", "u", "s", "e" >>,
                       << "l", "i", "s", "t", "i", "n", "g" >> }

link(url, type, description) == [url |-> url, type |-> type, description |-> description]

\* the loop of lines 196-236
RECURSIVE categorized_links(_, _)
categorized_links(matches, found_urls) ==
    IF matches = << >> THEN << >>
    ELSE LET match == Head(matches)
             url == lower(match)
             others == categorized_links(Tail(matches), found_urls \cup {match})
         IN  IF ~startswith(match, << "h", "t", "t", "p" >>) \/ match \in found_urls
               THEN categorized_links(Tail(matches), found_urls)
             ELSE IF any_in(unwanted_keywords, url) THEN others
             ELSE IF any_in(listing_domains, url)
               THEN IF ~any_in(tracking_keywords, url)
                      THEN << link(match, "listing", Some("Property listing")) >> \o others
                      ELSE others
             ELSE IF any_in(more_listing_domains, url)
               THEN IF ~any_in(tracking_keywords, url)
                      THEN << link(match, "listing", Some("Property listing")) >> \o others
                      ELSE others
             ELSE IF any_in(company_keywords, url)
               THEN << link(match, "company", Some("Real estate company")) >> \o others
             ELSE IF any_in(property_keywords, url)
               THEN << link(match, "external", None) >> \o others
             ELSE others

\* mutant: every link that was categorized is returned
extract_all_links_unlimited(matches) == categorized_links(matches, {})

\* lines 183-240
extract_all_links(matches) == FirstThree(categorized_links(matches, {}))

\* mutant: the state and zip code are read only from an address of exactly
\* three parts
address_components_of_three_parts(address) ==
    LET parts == SplitOn(address, << ",", " " >>)
        state_zip == Words(strip(parts[3]))
    IN  IF address = not_available
          THEN [city |-> not_available, state_abbr |-> not_available, zip_code |-> not_available]
        ELSE IF Len(parts) = 3
          THEN [city |-> strip(parts[2]),
                state_abbr |-> IF Len(state_zip) > 0 THEN state_zip[1] ELSE not_available,
                zip_code |-> IF Len(state_zip) > 1 THEN state_zip[2] ELSE not_available]
        ELSE IF Len(parts) >= 2
          THEN [city |-> strip(parts[2]), state_abbr |-> not_available, zip_code |-> not_available]
        ELSE [city |-> not_available, state_abbr |-> not_available, zip_code |-> not_available]

\* lines 262-282: city, state abbreviation and zip code of an address
address_components(address) ==
    LET parts == SplitOn(address, << ",", " " >>)
        state_zip == Words(strip(parts[3]))
    IN  IF address = not_available
          THEN [city |-> not_available, state_abbr |-> not_available, zip_code |-> not_available]
        ELSE IF Len(parts) >= 3
          THEN [city |-> strip(parts[2]),
                state_abbr |-> IF Len(state_zip) > 0 THEN state_zip[1] ELSE not_available,
                zip_code |-> IF Len(state_zip) > 1 THEN state_zip[2] ELSE not_available]
        ELSE IF Len(parts) = 2
          THEN [city |-> strip(parts[2]), state_abbr |-> not_available, zip_code |-> not_available]
        ELSE [city |-> not_available, state_abbr |-> not_available, zip_code |-> not_available]

\* lines 311-313, cutting at 497 characters
cut_description(description) ==
    IF Len(description) > 500
      THEN SubSeq(description, 1, 497) \o << ".", ".", "." >>
      ELSE description

\* lines 297-301
state_name(state_abbr) ==
    get(state_map, upper(state_abbr),
        IF state_abbr # not_available THEN state_abbr ELSE not_available)

cleaned_property_type(property_type) ==
    IF property_type # not_available
      THEN normalize_property_type(Some(property_type))
      ELSE property_type

\* lines 258-332: the Property made of what lines 243-256 extracted
email_property(address, property_type, purchase_price, monthly_rent, bedrooms, bathrooms, sqft, lot, year_built, listing_url, image_urls, source_links, description) ==
    IF \E number \in {bedrooms, sqft, lot, year_built} : number.kind = "raise"
      THEN CHOOSE number \in {bedrooms, sqft, lot, year_built} : number.kind = "raise"
      ELSE Return([ address |-> address,
                    city |-> address_components(address).city,
                    state |-> state_name(address_components(address).state_abbr),
                    zip_code |-> address_components(address).zip_code,
                    property_type |-> cleaned_property_type(property_type),
                    purchase_price |-> purchase_price,
                    monthly_rent |-> monthly_rent,
                    bedrooms |-> bedrooms.value,
                    bathrooms |-> bathrooms,
                    square_footage |->
                        IF sqft.value = Zero /\ RatLt(Zero, lot.value)
                          THEN lot.value ELSE sqft.value,
                    lot_size |-> IF RatLt(Zero, lot.value) THEN Some(lot.value) ELSE None,
                    year_built |-> year_built.value,
                    description |-> cut_description(description),
                    listing_url |-> listing_url,
                    image_urls |-> image_urls,
                    source_links |-> source_links ])

\* lines 35-332, for the order list() took through the set of images
parse_email_alert(email_content, image_order) ==
    email_property(extract_field(email_content.address, not_available),
                   extract_field(email_content.property_type, not_available),
                   extract_price(email_content.price),
                   extract_price(email_content.rent),
                   extract_number(email_content.bedrooms),
                   extract_float(email_content.bathrooms),
                   extract_number(email_content.sqft),
                   extract_number(email_content.lot_size),
                   extract_number(email_content.year_built),
                   extract_field(email_content.listing_url, not_available),
                   extract_images(email_content.images, image_order),
                   extract_all_links(email_content.links),
                   extract_field(email_content.description, default_description))

(***************************************************************************)
(* parse_pdf_content, pdf_parser_helper.py.  The text is again held by     *)
(* what the patterns capture: for extract_flexible_value the first match   *)
(* that is not blank, for a number the non-empty matches in the order the  *)
(* loops of lines 37-48 and 53-65 meet them.                               *)
(***************************************************************************)
unknown_address == << "U", "n", "k", "n", "o", "w", "n", " ", "A", "d", "d", "r", "e", "s", "s" >>

unknown_place == << "U", "n", "k", "n", "o", "w", "n" >>

unknown_zip == << "0", "0", "0", "0", "0" >>

unknown_type == << "u", "n", "k", "n", "o", "w", "n" >>

pdf_description == << "P", "r", "o", "p", "e", "r", "t", "y", " ", "d", "e", "t", "a", "i", "l", "s", " ", "e", "x", "t", "r", "a", "c", "t", "e", "d", " ", "f", "r", "o", "m", " ", "P", "D", "F" >>

\* lines 8-18
extract_flexible_value(capture, default) ==
    IF IsNone(capture) THEN default ELSE Some(strip(Val(capture)))

\* lines 25-33
extract_with_header_fallback(capture, header_capture, default) ==
    LET result == extract_flexible_value(capture, None)
    IN  IF ~IsNone(result) /\ Val(result) # << >> /\ result # default THEN result
        ELSE extract_flexible_value(header_capture, default)

\* lines 35-49
RECURSIVE pdf_extract_price(_)
pdf_extract_price(captures) ==
    LET price_str == strip(Remove(Remove(Remove(Head(captures), ","), "$"), " "))
    IN  IF captures = << >> THEN Zero
        ELSE IF IsNone(ParseFloat(price_str)) THEN pdf_extract_price(Tail(captures))
        ELSE Val(ParseFloat(price_str))

\* lines 51-66 with is_float=True
RECURSIVE pdf_extract_float(_)
pdf_extract_float(captures) ==
    LET clean_match == strip(Remove(Remove(Head(captures), ","), " "))
    IN  IF captures = << >> THEN Zero
        ELSE IF IsNone(ParseFloat(clean_match)) THEN pdf_extract_float(Tail(captures))
        ELSE Val(ParseFloat(clean_match))

\* lines 51-66 with is_float=False
RECURSIVE pdf_extract_number(_)
pdf_extract_number(captures) ==
    LET clean_match == strip(Remove(Remove(Head(captures), ","), " "))
    IN  IF captures = << >> THEN Return(Zero)
        ELSE IF IsNone(ParseFloat(clean_match)) THEN pdf_extract_number(Tail(captures))
        ELSE IF IsInfinite(Val(ParseFloat(clean_match)))
          THEN Raise("OverflowError", << "c", "a", "n", "n", "o", "t", " ", "c", "o", "n", "v", "e", "r", "t", " ", "f", "l", "o", "a", "t", " ", "i", "n", "f", "i", "n", "i", "t", "y", " ", "t", "o", " ", "i", "n", "t", "e", "g", "e", "r" >>)
        ELSE Return(Truncated(Val(ParseFloat(clean_match))))

\* mutant: a header value replaces a body value under 500 whenever one is found
pdf_square_footage_preferring_header(sqft, header_sqft, lot) ==
    IF RatLt(sqft, Rat(500, 1)) /\ RatLt(Zero, header_sqft)
      THEN header_sqft
    ELSE IF sqft = Zero /\ RatLt(Zero, lot) THEN lot
    ELSE sqft

\* lines 181-198: the square footage, of the body, of the header or of the lot
pdf_square_footage(sqft, header_sqft, lot) ==
    IF RatLt(sqft, Rat(500, 1)) /\ RatLt(Zero, header_sqft) /\ RatLt(sqft, header_sqft)
      THEN header_sqft
    ELSE IF sqft = Zero /\ RatLt(Zero, lot) THEN lot
    ELSE sqft

\* lines 204-219: the Property made of what lines 164-202 extracted; the
\* header is read for the square footage only when the body gave less than 500
pdf_property(address, purchase_price, monthly_rent, property_type_raw, bedrooms, bathrooms, sqft, header_sqft, lot, year_built, city, state, zip_code) ==
    IF \E number \in {bedrooms, sqft, lot, year_built} : number.kind = "raise"
      THEN Raise("OverflowError", << "c", "a", "n", "n", "o", "t", " ", "c", "o", "n", "v", "e", "r", "t", " ", "f", "l", "o", "a", "t", " ", "i", "n", "f", "i", "n", "i", "t", "y", " ", "t", "o", " ", "i", "n", "t", "e", "g", "e", "r" >>)
    ELSE IF RatLt(sqft.value, Rat(500, 1)) /\ header_sqft.kind = "raise"
      THEN Raise("OverflowError", << "c", "a", "n", "n", "o", "t", " ", "c", "o", "n", "v", "e", "r", "t", " ", "f", "l", "o", "a", "t", " ", "i", "n", "f", "i", "n", "i", "t", "y", " ", "t", "o", " ", "i", "n", "t", "e", "g", "e", "r" >>)
    ELSE Return([ address |-> address,
                  city |-> city,
                  state |-> state,
                  zip_code |-> zip_code,
                  property_type |-> normalize_property_type(property_type_raw),
                  purchase_price |-> purchase_price,
                  monthly_rent |-> monthly_rent,
                  bedrooms |-> bedrooms.value,
                  bathrooms |-> bathrooms,
                  square_footage |->
                      IF RatLt(sqft.value, Rat(500, 1))
                        THEN pdf_square_footage(sqft.value, header_sqft.value, lot.value)
                        ELSE sqft.value,
                  lot_size |-> IF RatLt(Zero, lot.value) THEN Some(lot.value) ELSE None,
                  year_built |-> year_built.value,
                  description |-> pdf_description,
                  listing_url |-> not_available,
                  image_urls |-> << >>,
                  source_links |-> << >> ])

\* lines 5-219
parse_pdf_content(text_content) ==
    pdf_property(Val(extract_flexible_value(text_content.address, Some(unknown_address))),
                 pdf_extract_price(text_content.price),
                 pdf_extract_price(text_content.rent),
                 extract_with_header_fallback(text_content.property_type,
                                              text_content.header_property_type,
                                              Some(single_family)),
                 pdf_extract_number(text_content.bedrooms),
                 pdf_extract_float(text_content.bathrooms),
                 pdf_extract_number(text_content.sqft),
                 pdf_extract_number(text_content.header_sqft),
                 pdf_extract_number(text_content.lot_size),
                 pdf_extract_number(text_content.year_built),
                 Val(extract_flexible_value(text_content.city, Some(unknown_place))),
                 Val(extract_flexible_value(text_content.state, Some(unknown_place))),
                 Val(extract_flexible_value(text_content.zip_code, Some(unknown_zip))))

(***************************************************************************)
(* file_parser.py.  A table is the DataFrame pandas reads: its columns in  *)
(* order, each with its name and the cell of the first row.  A cell is NaN,*)
(* a str, an integer (int, int64) or a floating number (float64).           *)
(***************************************************************************)
NaN == [kind |-> "nan", text |-> << >>, number |-> Zero]

Str(text) == [kind |-> "str", text |-> text, number |-> Zero]

Integer(n) == [kind |-> "int", text |-> << >>, number |-> Rat(n, 1)]

Floating(x) == [kind |-> "float", text |-> << >>, number |-> x]

\* str(n) of an int
RECURSIVE NaturalText(_)
NaturalText(n) ==
    IF n < 10 THEN << DigitChars[n + 1] >>
    ELSE NaturalText(n \div 10) \o << DigitChars[(n % 10) + 1] >>

\* the digits after the point of r / d, for a fraction that ends
RECURSIVE FractionText(_, _)
FractionText(r, d) ==
    IF r = 0 THEN << >>
    ELSE << DigitChars[((10 * r) \div d) + 1] >> \o FractionText((10 * r) % d, d)

\* str(x) of an int or a float
NumberText(cell) ==
    LET x == cell.number
        sign == IF x.n < 0 THEN << "-" >> ELSE << >>
    IN  IF cell.kind = "int" THEN sign \o NaturalText(Abs(x.n))
        ELSE IF IsInfinite(x) THEN << "i", "n", "f" >>
        ELSE IF x.d = 1 THEN sign \o NaturalText(Abs(x.n)) \o << ".", "0" >>
        ELSE sign \o NaturalText(Abs(x.n) \div x.d) \o << "." >>
                  \o FractionText(Abs(x.n) % x.d, x.d)

\* str(value), lines 187-194
str(cell) == IF cell.kind = "str" THEN cell.text ELSE NumberText(cell)

\* lines 158-167: the first column whose name holds the wanted name and
\* whose cell is neither NaN nor blank
RECURSIVE value_in_columns(_, _)
value_in_columns(name, columns) ==
    LET col == Head(columns)
        value == col.value
    IN  IF columns = << >> THEN None
        ELSE IF ~Contains(lower(name), lower(col.name))
          THEN value_in_columns(name, Tail(columns))
        ELSE IF value.kind = "nan" THEN value_in_columns(name, Tail(columns))
        ELSE IF value.kind = "str" /\ strip(value.text) = << >>
          THEN value_in_columns(name, Tail(columns))
        ELSE IF value.kind = "str" THEN Some(Str(strip(value.text)))
        ELSE Some(value)

\* mutant: the columns are gone through first, and the names for each column
RECURSIVE get_value_by_column(_, _, _)
get_value_by_column(columns, possible_names, default) ==
    LET value == Head(columns).value
        named == \E i \in DOMAIN possible_names :
                    Contains(lower(possible_names[i]), lower(Head(columns).name))
    IN  IF columns = << >> THEN default
        ELSE IF ~named \/ value.kind = "nan" \/ (value.kind = "str" /\ strip(value.text) = << >>)
          THEN get_value_by_column(Tail(columns), possible_names, default)
        ELSE IF value.kind = "str" THEN Str(strip(value.text))
        ELSE value

\* lines 156-168
RECURSIVE get_value(_, _, _)
get_value(columns, possible_names, default) ==
    IF possible_names = << >> THEN default
    ELSE IF IsNone(value_in_columns(Head(possible_names), columns))
      THEN get_value(columns, Tail(possible_names), default)
    ELSE Val(value_in_columns(Head(possible_names), columns))

\* lines 291-312 with default=0, on what get_value returns
clean_numeric(value) ==
    LET cleaned == strip(Remove(Remove(Remove(value.text, "$"), ","), " "))
        number == IF Contains(<< "." >>, cleaned) THEN ParseFloat(cleaned) ELSE ParseInt(cleaned)
    IN  IF value.kind = "int" THEN value.number
        ELSE IF value.kind = "float" THEN value.number
        ELSE IF cleaned = << >> THEN Zero
        ELSE IF IsNone(number) THEN Zero
        ELSE Val(number)

address_names == << << "a", "d", "d", "r", "e", "s", "s" >>, << "p", "r", "o", "p", "e", "r", "t", "y", "_", "a", "d", "d", "r", "e", "s", "s" >>, << "s", "t", "r", "e", "e", "t" >>, << "l", "o", "c", "a", "t", "i", "o", "n" >> >>

city_names == << << "c", "i", "t", "y" >> >>

state_names == << << "s", "t", "a", "t", "e" >> >>

zip_names == << << "z", "i", "p" >>, << "z", "i", "p", "c", "o", "d", "e" >>, << "p", "o", "s", "t", "a", "l" >> >>

type_names == << << "t", "y", "p", "e" >>, << "p", "r", "o", "p", "e", "r", "t", "y", "_", "t", "y", "p", "e" >>, << "s", "t", "y", "l", "e" >> >>

price_names == << << "p", "r", "i", "c", "e" >>, << "p", "u", "r", "c", "h", "a", "s", "e", "_", "p", "r", "i", "c", "e" >>, << "l", "i", "s", "t", "i", "n", "g", "_", "p", "r", "i", "c", "e" >>, << "l", "i", "s", "t", "_", "p", "r", "i", "c", "e" >>, << "a", "s", "k", "i", "n", "g", "_", "p", "r", "i", "c", "e" >> >>

rent_names == << << "r", "e", "n", "t" >>, << "m", "o", "n", "t", "h", "l", "y", "_", "r", "e", "n", "t" >>, << "r", "e", "n", "t", "a", "l", "_", "i", "n", "c", "o", "m", "e" >> >>

bedroom_names == << << "b", "e", "d", "r", "o", "o", "m", "s" >>, << "b", "e", "d", "s" >>, << "b", "r" >> >>

bathroom_names == << << "b", "a", "t", "h", "r", "o", "o", "m", "s" >>, << "b", "a", "t", "h", "s" >>, << "b", "a" >> >>

sqft_names == << << "s", "q", "f", "t" >>, << "s", "q", "u", "a", "r", "e", "_", "f", "e", "e", "t" >>, << "s", "q", "u", "a", "r", "e", " ", "f", "e", "e", "t" >>, << "s", "i", "z", "e" >>, << "s", "q", "_", "f", "t" >> >>

year_names == << << "y", "e", "a", "r", "_", "b", "u", "i", "l", "t" >>, << "b", "u", "i", "l", "t" >>, << "c", "o", "n", "s", "t", "r", "u", "c", "t", "i", "o", "n", "_", "y", "e", "a", "r" >> >>

description_names == << << "d", "e", "s", "c", "r", "i", "p", "t", "i", "o", "n" >>, << "d", "e", "t", "a", "i", "l", "s" >>, << "n", "o", "t", "e", "s" >> >>

url_names == << << "u", "r", "l" >>, << "l", "i", "s", "t", "i", "n", "g", "_", "u", "r", "l" >>, << "l", "i", "n", "k" >> >>

csv_description == << "C", "S", "V", " ", "p", "r", "o", "p", "e", "r", "t", "y", " ", "l", "i", "s", "t", "i", "n", "g" >>

\* the Property of lines 127-141, 208-222, 248-262 and 275-289
error_property(address, description) ==
    [ address |-> address,
      city |-> unknown_place,
      state |-> unknown_place,
      zip_code |-> unknown_zip,
      property_type |-> unknown_type,
      purchase_price |-> Zero,
      monthly_rent |-> Zero,
      bedrooms |-> Zero,
      bathrooms |-> Zero,
      square_footage |-> Zero,
      lot_size |-> None,
      year_built |-> Zero,
      description |-> description,
      listing_url |-> not_available,
      image_urls |-> << >>,
      source_links |-> << >> ]

\* try: ... except Exception as e: the error Property in place of what raised
caught(outcome, address, prefix) ==
    IF outcome.kind = "raise" THEN error_property(address, prefix \o outcome.what)
    ELSE outcome.value

\* lines 190-204: the Property made of what lines 171-188 took from the row,
\* or the exception that leaves the try block
csv_property(address, city, state, zip_code, property_type, purchase_price, monthly_rent, bedrooms, bathrooms, square_footage, year_built, description, listing_url) ==
    IF \E number \in {bedrooms, square_footage, year_built} : IsInfinite(number)
      THEN Raise("OverflowError", << "c", "a", "n", "n", "o", "t", " ", "c", "o", "n", "v", "e", "r", "t", " ", "f", "l", "o", "a", "t", " ", "i", "n", "f", "i", "n", "i", "t", "y", " ", "t", "o", " ", "i", "n", "t", "e", "g", "e", "r" >>)
    ELSE IF property_type.kind # "str" /\ property_type.number # Zero
      THEN Raise("AttributeError", << "o", "b", "j", "e", "c", "t", " ", "h", "a", "s", " ", "n", "o", " ", "a", "t", "t", "r", "i", "b", "u", "t", "e", " ", "'", "l", "o", "w", "e", "r", "'" >>)
    ELSE Return([ address |-> str(address),
                  city |-> str(city),
                  state |-> str(state),
                  zip_code |-> str(zip_code),
                  property_type |->
                      IF property_type.kind = "str"
                        THEN normalize_property_type(Some(property_type.text))
                        ELSE single_family,
                  purchase_price |-> purchase_price,
                  monthly_rent |-> monthly_rent,
                  bedrooms |-> Truncated(bedrooms),
                  bathrooms |-> bathrooms,
                  square_footage |-> Truncated(square_footage),
                  lot_size |-> None,
                  year_built |-> Truncated(year_built),
                  description |-> str(description),
                  listing_url |-> str(listing_url),
                  image_urls |-> << >>,
                  source_links |-> << >> ])

\* lines 170-204 on the first row
csv_row(columns) ==
    csv_property(get_value(columns, address_names, Str(unknown_address)),
                 get_value(columns, city_names, Str(unknown_place)),
                 get_value(columns, state_names, Str(unknown_place)),
                 get_value(columns, zip_names, Str(unknown_zip)),
                 get_value(columns, type_names, Str(single_family)),
                 clean_numeric(get_value(columns, price_names, Integer(0))),
                 clean_numeric(get_value(columns, rent_names, Integer(0))),
                 clean_numeric(get_value(columns, bedroom_names, Integer(0))),
                 clean_numeric(get_value(columns, bathroom_names, Integer(0))),
                 clean_numeric(get_value(columns, sqft_names, Integer(0))),
                 clean_numeric(get_value(columns, year_names, Integer(0))),
                 get_value(columns, description_names, Str(csv_description)),
                 get_value(columns, url_names, Str(not_available)))

csv_error == << "C", "S", "V", " ", "p", "a", "r", "s", "i", "n", "g", " ", "e", "r", "r", "o", "r", ":", " " >>

\* lines 143-222, on the table pandas read from the file
parse_csv_file(file) ==
    IF ~file.readable THEN error_property(<< "C", "S", "V", " ", "P", "a", "r", "s", "e", " ", "E", "r", "r", "o", "r" >>, csv_error \o file.error)
    ELSE IF file.table = << >>
      THEN error_property(<< "C", "S", "V", " ", "P", "a", "r", "s", "e", " ", "E", "r", "r", "o", "r" >>, csv_error \o << "C", "S", "V", " ", "f", "i", "l", "e", " ", "i", "s", " ", "e", "m", "p", "t", "y" >>)
    ELSE caught(csv_row(file.table), << "C", "S", "V", " ", "P", "a", "r", "s", "e", " ", "E", "r", "r", "o", "r" >>, csv_error)

\* ' '.join(words)
RECURSIVE join(_)
join(words) ==
    IF words = << >> THEN << >>
    ELSE IF Len(words) = 1 THEN words[1]
    ELSE words[1] \o << " " >> \o join(Tail(words))

\* what pd.read_csv makes of a cell df.to_csv wrote, lines 235-238: text that
\* is a number comes back as that number, empty text as NaN
reread(value) ==
    LET digits == IF value.text # << >> /\ Head(value.text) = "-"
                    THEN Tail(value.text) ELSE value.text
        whole == IF Find(<< "." >>, digits) = 0 THEN digits
                 ELSE SubSeq(digits, 1, Find(<< "." >>, digits) - 1)
        fraction == IF Find(<< "." >>, digits) = 0 THEN << >>
                    ELSE SubSeq(digits, Find(<< "." >>, digits) + 1, Len(digits))
    IN  IF value.kind # "str" THEN value
        ELSE IF value.text = << >> THEN NaN
        ELSE IF digits # << >> /\ AllDigits(digits) THEN Integer(Val(ParseInt(value.text)).n)
        ELSE IF Find(<< "." >>, digits) # 0 /\ AllDigits(whole) /\ AllDigits(fraction)
                  /\ whole \o fraction # << >>
          THEN Floating(Val(ParseFloat(value.text)))
        ELSE value

to_csv(table) == [i \in DOMAIN table |-> [table[i] EXCEPT !.value = reread(@)]]

excel_error == << "E", "x", "c", "e", "l", " ", "p", "a", "r", "s", "i", "n", "g", " ", "e", "r", "r", "o", "r", ":", " " >>

\* lines 224-262
parse_excel_file(file) ==
    IF ~file.readable THEN error_property(<< "E", "x", "c", "e", "l", " ", "P", "a", "r", "s", "e", " ", "E", "r", "r", "o", "r" >>, excel_error \o file.error)
    ELSE IF file.table = << >>
      THEN error_property(<< "E", "x", "c", "e", "l", " ", "P", "a", "r", "s", "e", " ", "E", "r", "r", "o", "r" >>, excel_error \o << "E", "x", "c", "e", "l", " ", "f", "i", "l", "e", " ", "i", "s", " ", "e", "m", "p", "t", "y" >>)
    ELSE parse_csv_file([file EXCEPT !.table = to_csv(@)])

text_error == << "T", "e", "x", "t", " ", "p", "a", "r", "s", "i", "n", "g", " ", "e", "r", "r", "o", "r", ":", " " >>

\* lines 264-289
parse_text_file(file, image_order) ==
    IF ~file.readable THEN error_property(<< "T", "e", "x", "t", " ", "P", "a", "r", "s", "e", " ", "E", "r", "r", "o", "r" >>, text_error \o file.error)
    ELSE caught(parse_email_alert(file.text.email, image_order), << "T", "e", "x", "t", " ", "P", "a", "r", "s", "e", " ", "E", "r", "r", "o", "r" >>, text_error)

pdf_error == << "P", "D", "F", " ", "p", "a", "r", "s", "i", "n", "g", " ", "e", "r", "r", "o", "r", ":", " " >>

\* lines 103-106: the description collected from the lines of the text
pdf_file_description(collected) ==
    LET description == join(Words(collected))
    IN  IF Len(description) > 500
          THEN SubSeq(description, 1, 500) \o << ".", ".", "." >>
          ELSE description

\* lines 108-123: the Property of parse_pdf_content when it holds a price or
\* an address, else the one of parse_email_alert, with the description of
\* lines 70-106
pdf_or_email(description, result, fallback) ==
    IF result.kind = "return"
          /\ (RatLt(Zero, result.value.purchase_price)
                \/ result.value.address # unknown_address)
      THEN Return([result.value EXCEPT
                     !.description = IF description # << >> THEN description
                                     ELSE pdf_description])
    ELSE IF fallback.kind = "raise" THEN fallback
    ELSE Return([fallback.value EXCEPT
                   !.description = IF description # << >> THEN description ELSE @])

\* lines 34-141.  The text of the pages comes with the file; the loop of
\* lines 72-101 that collects the lines of the description section is held
\* by its result, file.text.collected.
parse_pdf_file(file, image_order) ==
    IF ~file.readable THEN error_property(<< "P", "D", "F", " ", "P", "a", "r", "s", "e", " ", "E", "r", "r", "o", "r" >>, pdf_error \o file.error)
    ELSE IF file.text.blank
      THEN error_property(<< "P", "D", "F", " ", "F", "i", "l", "e", ":", " " >> \o file.name, << "P", "D", "F", " ", "p", "a", "r", "s", "i", "n", "g", " ", "f", "a", "i", "l", "e", "d", " ", "-", " ", "n", "o", " ", "e", "x", "t", "r", "a", "c", "t", "a", "b", "l", "e", " ", "t", "e", "x", "t", " ", "f", "o", "u", "n", "d" >>)
    ELSE caught(pdf_or_email(pdf_file_description(file.text.collected),
                             parse_pdf_content(file.text.pdf),
                             parse_email_alert(file.text.email, image_order)),
                << "P", "D", "F", " ", "P", "a", "r", "s", "e", " ", "E", "r", "r", "o", "r" >>, pdf_error)

\* lines 11-32
parse_file_content(file, image_order) ==
    LET tag == lower(file.file_type)
    IN  IF tag = << ".", "p", "d", "f" >> THEN Return(parse_pdf_file(file, image_order))
        ELSE IF tag = << ".", "c", "s", "v" >> THEN Return(parse_csv_file(file))
        ELSE IF tag \in {<< ".", "x", "l", "s", "x" >>, << ".", "x", "l", "s" >>} THEN Return(parse_excel_file(file))
        ELSE IF tag = << ".", "t", "x", "t" >> THEN Return(parse_text_file(file, image_order))
        ELSE Raise("ValueError", << "U", "n", "s", "u", "p", "p", "o", "r", "t", "e", "d", " ", "f", "i", "l", "e", " ", "t", "y", "p", "e", ":", " " >> \o file.file_type)

(***************************************************************************)
(* Inputs                                                                  *)
(***************************************************************************)
MaxPrice == 2

MaxRent == 3

MaxAdr == 2

MaxOccupancy == 2

MaxExpense == 1

MaxUpdates == 1

\* a complete criteria file
BaseFile ==
    [ property_types |-> Some(<< "single-family", "multi-family" >>),
      location |-> Some("Illinois"),
      max_purchase_price |-> Some(150000),
      downpayment |-> Some(<< 20, 25 >>),
      closing_costs |-> Some(<< 5, 6 >>),
      initial_fixed_costs |-> Some(1),
      maintenance_reserve |-> Some(5),
      coc |-> Some(<< 8, 12, 5, 9 >>),
      cap |-> Some(<< 8, 12, 6 >>),
      str_adr |-> Some(200),
      str_occupancy |-> Some(50),
      str_yield |-> Some(12),
      str_revenue |-> Some(36500) ]

RequiredLines ==
    { "property_types", "location", "max_purchase_price", "downpayment",
      "closing_costs", "initial_fixed_costs", "maintenance_reserve", "coc", "cap" }

StrLines == { "str_adr", "str_occupancy", "str_yield", "str_revenue" }

Without(file, lines) == [l \in DOMAIN file |-> IF l \in lines THEN None ELSE file[l]]

\* the complete file, the file lacking one required line, and the file
\* lacking any of its STR lines
CriteriaFiles ==
    {Without(BaseFile, {l}) : l \in RequiredLines}
        \cup {Without(BaseFile, S) : S \in SUBSET StrLines}

Prices == {Cents(100000 * k) : k \in -1..MaxPrice}

\* no rent known, the rent that leaves a free listing no cash flow, and the
\* rents around one percent of the lowest price
Rents == {Cents(125 * k) : k \in 0..1} \cup {Cents(875 + 125 * k) : k \in 0..MaxRent}

PropertyInfos ==
    [ property_type : {"single-family", "condo"},
      state : {"Illinois", "Ohio"},
      purchase_price : Prices,
      monthly_rent : Rents ]

Adrs == {None} \cup {Some(Cents(100 * k)) : k \in 0..MaxAdr}

OccupancyRates == {None} \cup {Some(Rat(25 * k, 100)) : k \in 0..MaxOccupancy}

StrMetrics == [adr : Adrs, occupancy_rate : OccupancyRates]

ExpenseValues == {Some(Cents(40 * k)) : k \in 0..MaxExpense}

NoExpenses == [l \in ExpenseLines |-> None]

\* no line, one line, or every line supplied with a value
MonthlyExpenses ==
    {NoExpenses}
        \cup {[NoExpenses EXCEPT ![l] = v] : l \in ExpenseLines, v \in ExpenseValues}
        \cup {[l \in ExpenseLines |-> v] : v \in ExpenseValues}

AdditionalData == [str_metrics : StrMetrics, monthly_expenses : MonthlyExpenses]

MaxFinancedPrice == 4

MaxRentStep == 5

\* complete criteria files that differ in the financing lines
FinancingFiles ==
    { [BaseFile EXCEPT !.downpayment = Some(<< lo, 25 >>),
                       !.closing_costs = Some(<< cc, 6 >>),
                       !.initial_fixed_costs = Some(ifc),
                       !.maintenance_reserve = Some(mr)] :
        lo \in {15, 20}, cc \in {3, 5}, ifc \in {1, 2}, mr \in {5, 8} }

FinancedPrices == {Cents(50000 * k) : k \in -1..MaxFinancedPrice}

\* no rent known, a dollar under one percent of 150000, and the rents from
\* one percent of 150000 up
FinancedRents == {0, Cents(1499)} \cup {Cents(1500 + 100 * k) : k \in 0..MaxRentStep}

FinancedInfos ==
    [ property_type : {"single-family"},
      state : {"Illinois"},
      purchase_price : FinancedPrices,
      monthly_rent : FinancedRents ]

NoAdditionalData ==
    [ str_metrics |-> [adr |-> None, occupancy_rate |-> None],
      monthly_expenses |-> NoExpenses ]

MaxPad == 1

\* property types as listings spell them, in lower case
TypeWords ==
    { << >>,
      << "s", "f", "r" >>,
      << "s", "f" >>,
      << "s", "i", "n", "g", "l", "e", " ", "f", "a", "m", "i", "l", "y" >>,
      << "s", "i", "n", "g", "l", "e", " ", "f", "a", "m", "i", "l", "y", " ", "r", "e", "s", "i", "d", "e", "n", "t", "i", "a", "l" >>,
      << "s", "i", "n", "g", "l", "e", "f", "a", "m", "i", "l", "y" >>,
      << "s", "i", "n", "g", "l", "e", "-", "f", "a", "m", "i", "l", "y" >>,
      << "s", "i", "n", "g", "l", "e", " ", "f", "a", "m", "i", "l", "y", " ", "h", "o", "m", "e" >>,
      << "s", "i", "n", "g", "l", "e", " ", "o", "r", " ", "m", "u", "l", "t", "i", " ", "f", "a", "m", "i", "l", "y" >>,
      << "m", "f", "r" >>,
      << "m", "f" >>,
      << "m", "u", "l", "t", "i", "f", "a", "m", "i", "l", "y" >>,
      << "m", "u", "l", "t", "i", " ", "f", "a", "m", "i", "l", "y" >>,
      << "m", "u", "l", "t", "i", "-", "f", "a", "m", "i", "l", "y" >>,
      << "m", "u", "l", "t", "i", " ", "f", "a", "m", "i", "l", "y", " ", "r", "e", "s", "i", "d", "e", "n", "t", "i", "a", "l" >>,
      << "m", "u", "l", "t", "i", "f", "a", "m", "i", "l", "y", " ", "r", "e", "s", "i", "d", "e", "n", "t", "i", "a", "l" >>,
      << "m", "u", "l", "t", "i", " ", "f", "a", "m", "i", "l", "y", " ", "h", "o", "m", "e" >>,
      << "t", "o", "w", "n", "h", "o", "u", "s", "e" >>,
      << "t", "o", "w", "n", "h", "o", "m", "e" >>,
      << "t", "o", "w", "n", " ", "h", "o", "m", "e" >>,
      << "c", "o", "n", "d", "o" >>,
      << "c", "o", "n", "d", "o", "m", "i", "n", "i", "u", "m" >>,
      << "d", "u", "p", "l", "e", "x" >>,
      << "t", "r", "i", "p", "l", "e", "x" >>,
      << "f", "o", "u", "r", "p", "l", "e", "x" >>,
      << "4", "p", "l", "e", "x" >>,
      << "t", "i", "n", "y", " ", "h", "o", "u", "s", "e" >>,
      << "r", "a", "n", "c", "h" >>,
      << "f", "a", "m", "i", "l", "y" >> }

\* the text with its first letter in upper case
Capitalized(text) ==
    IF text = << >> THEN text ELSE upper(SubSeq(text, 1, 1)) \o SubSeq(text, 2, Len(text))

RECURSIVE Blanks(_)
Blanks(n) == IF n = 0 THEN << >> ELSE << " " >> \o Blanks(n - 1)

\* each word in lower, upper and capitalized spelling, bare and padded
TypeTexts ==
    { Blanks(n) \o t \o Blanks(n) :
        n \in 0..MaxPad,
        t \in TypeWords \cup {upper(w) : w \in TypeWords}
                \cup {Capitalized(w) : w \in TypeWords} }

(***************************************************************************)
(* Inputs of the extraction: the texts of listings, by what the patterns   *)
(* of parse_email_alert and parse_pdf_content capture in them, the tables  *)
(* of spreadsheets, and the files and e-mails that carry them.             *)
(***************************************************************************)
\* c * n
Repeat(c, n) == [i \in 1..n |-> c]

NoText ==
    [ blank |-> TRUE,
      email |->
        [ address |-> None,
          property_type |-> None,
          price |-> << >>,
          rent |-> << >>,
          bedrooms |-> << >>,
          bathrooms |-> << >>,
          sqft |-> << >>,
          lot_size |-> << >>,
          year_built |-> << >>,
          listing_url |-> None,
          images |-> << >>,
          links |-> << >>,
          description |-> None ],
      pdf |->
        [ address |-> None,
          price |-> << >>,
          rent |-> << >>,
          property_type |-> None,
          header_property_type |-> None,
          bedrooms |-> << >>,
          bathrooms |-> << >>,
          sqft |-> << >>,
          header_sqft |-> << >>,
          lot_size |-> << >>,
          year_built |-> << >>,
          city |-> None,
          state |-> None,
          zip_code |-> None ],
      collected |->
        << >> ]

SampleText ==
    [ blank |-> FALSE,
      email |->
        [ address |-> Some(<< "1", "2", "3", " ", "M", "a", "i", "n", " ", "S", "t", ",", " ", "S",
            "p", "r", "i", "n", "g", "f", "i", "e", "l", "d", ",", " ", "I", "L", " ", "6", "2",
            "7", "0", "4" >>),
          property_type |-> Some(<< "S", "i", "n", "g", "l", "e", " ", "F", "a", "m", "i", "l",
            "y" >>),
          price |-> << << "2", "5", "0", ",", "0", "0", "0" >> >>,
          rent |-> << << "2", ",", "0", "0", "0" >>, << "2", ",", "0", "0", "0" >>, << "2", "5",
            "0", ",", "0", "0", "0" >> >>,
          bedrooms |-> << << "3" >>, << "0", "0", "0" >> >>,
          bathrooms |-> << << "2", ".", "5" >>, << "3" >> >>,
          sqft |-> << << "1", "5", "0", "0" >> >>,
          lot_size |-> << >>,
          year_built |-> << << "1", "9", "9", "5" >>, << "1", "9", "9", "5" >> >>,
          listing_url |-> Some(<< "h", "t", "t", "p", "s", ":", "/", "/", "w", "w", "w", ".", "z",
            "i", "l", "l", "o", "w", ".", "c", "o", "m", "/", "h", "o", "m", "e", "d", "e", "t",
            "a", "i", "l", "s", "/", "1", "2", "3" >>),
          images |-> << >>,
          links |-> << << "h", "t", "t", "p", "s", ":", "/", "/", "w", "w", "w", ".", "z", "i", "l",
            "l", "o", "w", ".", "c", "o", "m", "/", "h", "o", "m", "e", "d", "e", "t", "a", "i",
            "l", "s", "/", "1", "2", "3" >>, << "h", "t", "t", "p", "s", ":", "/", "/", "w", "w",
            "w", ".", "z", "i", "l", "l", "o", "w", ".", "c", "o", "m", "/", "h", "o", "m", "e",
            "d", "e", "t", "a", "i", "l", "s", "/", "1", "2", "3" >> >>,
          description |-> Some(<< "B", "r", "i", "g", "h", "t", " ", "h", "o", "m", "e", " ", "n",
            "e", "a", "r", " ", "t", "h", "e", " ", "p", "a", "r", "k", "." >>) ],
      pdf |->
        [ address |-> Some(<< "1", "2", "3", " ", "M", "a", "i", "n", " ", "S", "t", ",", " ", "S",
            "p", "r", "i", "n", "g", "f", "i", "e", "l", "d", ",", " ", "I", "L", " ", "6", "2",
            "7", "0", "4" >>),
          price |-> << << "2", "5", "0", ",", "0", "0", "0" >>, << "2", "5", "0", ",", "0", "0",
            "0" >>, << "2", ",", "0", "0", "0" >>, << "2", "5", "0", ",", "0", "0", "0" >>, << "2",
            ",", "0", "0", "0" >> >>,
          rent |-> << << "2", ",", "0", "0", "0" >>, << "2", "5", "0", ",", "0", "0", "0" >> >>,
          property_type |-> Some(<< "S", "i", "n", "g", "l", "e", " ", "F", "a", "m", "i", "l",
            "y" >>),
          header_property_type |-> Some(<< "S", "i", "n", "g", "l", "e", " ", "F", "a", "m", "i",
            "l", "y" >>),
          bedrooms |-> << << "3" >>, << "0", "0", "0" >> >>,
          bathrooms |-> << << "2", ".", "5" >>, << "3" >>, << "3" >> >>,
          sqft |-> << << "1", "5", "0", "0" >> >>,
          header_sqft |-> << >>,
          lot_size |-> << >>,
          year_built |-> << << "1", "9", "9", "5" >> >>,
          city |-> Some(<< "S", "p", "r", "i", "n", "g", "f", "i", "e", "l", "d" >>),
          state |-> Some(<< "I", "L" >>),
          zip_code |-> Some(<< "6", "2", "7", "0", "4" >>) ],
      collected |->
        << "h", "t", "t", "p", "s", ":", "/", "/", "w", "w", "w", ".", "z", "i", "l", "l", "o", "w",
        ".", "c", "o", "m", "/", "h", "o", "m", "e", "d", "e", "t", "a", "i", "l", "s", "/", "1",
        "2", "3", " ", "D", "e", "s", "c", "r", "i", "p", "t", "i", "o", "n", ":", " ", "B", "r",
        "i", "g", "h", "t", " ", "h", "o", "m", "e", " ", "n", "e", "a", "r", " ", "t", "h", "e",
        " ", "p", "a", "r", "k", ".", " " >> ]

FlyerText ==
    [ blank |-> FALSE,
      email |->
        [ address |-> Some(<< "4", "5", "6", " ", "O", "a", "k", " ", "A", "v", "e", "n", "u",
            "e" >>),
          property_type |-> Some(<< "D", "u", "p", "l", "e", "x" >>),
          price |-> << << "1", "8", "0", ",", "0", "0", "0" >> >>,
          rent |-> << << "1", ",", "9", "0", "0" >>, << "1", "8", "0", ",", "0", "0", "0" >> >>,
          bedrooms |-> << << "9", "0", "0" >>, << "4" >> >>,
          bathrooms |-> << << "4" >>, << "2" >> >>,
          sqft |-> << << "4", "0", "0" >> >>,
          lot_size |-> << >>,
          year_built |-> << << "1", "9", "7", "8" >>, << "1", "9", "7", "8" >> >>,
          listing_url |-> None,
          images |-> << >>,
          links |-> << >>,
          description |-> Some(<< "T", "w", "o", " ", "u", "n", "i", "t", "s", ".", "\n", "B", "o",
            "t", "h", " ", "r", "e", "n", "t", "e", "d", "." >>) ],
      pdf |->
        [ address |-> Some(<< "4", "5", "6", " ", "O", "a", "k", " ", "A", "v", "e", "n", "u",
            "e" >>),
          price |-> << << "1", "8", "0", ",", "0", "0", "0" >>, << "1", "8", "0", ",", "0", "0",
            "0" >>, << "1", ",", "9", "0", "0" >>, << "1", "8", "0", ",", "0", "0", "0" >>, << "1",
            ",", "9", "0", "0" >> >>,
          rent |-> << << "1", ",", "9", "0", "0" >>, << "1", "8", "0", ",", "0", "0", "0" >> >>,
          property_type |-> Some(<< "D", "u", "p", "l", "e", "x" >>),
          header_property_type |-> Some(<< "D", "u", "p", "l", "e", "x" >>),
          bedrooms |-> << << "4" >>, << "9", "0", "0" >> >>,
          bathrooms |-> << << "2" >>, << "4" >>, << "4" >> >>,
          sqft |-> << << "2", ",", "4", "0", "0" >>, << "4", "0", "0" >> >>,
          header_sqft |-> << << "2", ",", "4", "0", "0" >>, << "4", "0", "0" >>, << "2", ",", "4",
            "0", "0" >>, << "2", ",", "4", "0", "0" >>, << "4", "0", "0" >> >>,
          lot_size |-> << >>,
          year_built |-> << << "1", "9", "7", "8" >> >>,
          city |-> Some(<< "P", "e", "o", "r", "i", "a" >>),
          state |-> Some(<< "I", "L" >>),
          zip_code |-> Some(<< "6", "1", "6", "0", "2" >>) ],
      collected |->
        << "T", "w", "o", " ", "u", "n", "i", "t", "s", ".", " ", "B", "o", "t", "h", " ", "r", "e",
        "n", "t", "e", "d", ".", " " >> ]

ListingTexts ==
    {
      \* the sample listing
      SampleText,
      \* a text no pattern matches
      [ NoText EXCEPT
          !.blank = FALSE ],
      \* the state written in lower case
      [ SampleText EXCEPT
          !.email.address = Some(<< "1", "2", "3", " ", "M", "a", "i", "n", " ", "S", "t", ",", " ",
            "S", "p", "r", "i", "n", "g", "f", "i", "e", "l", "d", ",", " ", "i", "l", " ", "6",
            "2", "7", "0", "4" >>),
          !.pdf.address = Some(<< "1", "2", "3", " ", "M", "a", "i", "n", " ", "S", "t", ",", " ",
            "S", "p", "r", "i", "n", "g", "f", "i", "e", "l", "d", ",", " ", "i", "l", " ", "6",
            "2", "7", "0", "4" >>),
          !.pdf.state = Some(<< "i", "l" >>) ],
      \* a state token the table does not hold
      [ SampleText EXCEPT
          !.email.address = Some(<< "1", "2", "3", " ", "M", "a", "i", "n", " ", "S", "t", ",", " ",
            "S", "p", "r", "i", "n", "g", "f", "i", "e", "l", "d", ",", " ", "Z", "Z", " ", "6",
            "2", "7", "0", "4" >>),
          !.pdf.address = Some(<< "1", "2", "3", " ", "M", "a", "i", "n", " ", "S", "t", ",", " ",
            "S", "p", "r", "i", "n", "g", "f", "i", "e", "l", "d", ",", " ", "Z", "Z", " ", "6",
            "2", "7", "0", "4" >>),
          !.pdf.state = Some(<< "Z", "Z" >>) ],
      \* an address of two parts
      [ SampleText EXCEPT
          !.email.address = Some(<< "1", "2", "3", " ", "M", "a", "i", "n", " ", "S", "t", ",", " ",
            "S", "p", "r", "i", "n", "g", "f", "i", "e", "l", "d" >>),
          !.pdf.address = Some(<< "1", "2", "3", " ", "M", "a", "i", "n", " ", "S", "t", ",", " ",
            "S", "p", "r", "i", "n", "g", "f", "i", "e", "l", "d" >>),
          !.pdf.city = None,
          !.pdf.state = None,
          !.pdf.zip_code = None ],
      \* an address of one part
      [ SampleText EXCEPT
          !.email.address = Some(<< "1", "2", "3", " ", "M", "a", "i", "n", " ", "S", "t" >>),
          !.pdf.address = Some(<< "1", "2", "3", " ", "M", "a", "i", "n", " ", "S", "t" >>),
          !.pdf.city = None,
          !.pdf.state = None,
          !.pdf.zip_code = None ],
      \* no property type
      [ SampleText EXCEPT
          !.email.property_type = None,
          !.pdf.property_type = None,
          !.pdf.header_property_type = None ],
      \* a property type outside the canonical ones
      [ SampleText EXCEPT
          !.email.property_type = Some(<< "T", "i", "n", "y", " ", "H", "o", "u", "s", "e" >>),
          !.pdf.property_type = Some(<< "T", "i", "n", "y", " ", "H", "o", "u", "s", "e" >>),
          !.pdf.header_property_type = None ],
      \* a bedroom count of 400 digits
      [ SampleText EXCEPT
          !.email.bedrooms = << << Nines >>, << "0", "0", "0" >> >>,
          !.email.bathrooms = << << "2", ".", "5" >>, << Nines >> >>,
          !.pdf.bedrooms = << << Nines >>, << "0", "0", "0" >> >>,
          !.pdf.bathrooms = << << "2", ".", "5" >>, << Nines >>, << Nines >> >> ],
      \* a malformed bathroom count
      [ SampleText EXCEPT
          !.email.bathrooms = << << "2", ".", "5", ".", "1" >>, << "3" >> >>,
          !.pdf.bathrooms = << << "2", ".", "5", ".", "1" >>, << "3" >>, << "3" >> >> ],
      \* a square footage with a thousands separator
      [ SampleText EXCEPT
          !.email.sqft = << << "1", ",", "2", "0", "0" >> >>,
          !.pdf.sqft = << << "1", ",", "2", "0", "0" >> >> ],
      \* a lot size and no square footage
      [ SampleText EXCEPT
          !.email.sqft = << >>,
          !.email.lot_size = << << "5", "0", "0", "0" >> >>,
          !.pdf.sqft = << << "5", "0", "0", "0" >> >>,
          !.pdf.lot_size = << << "5", "0", "0", "0" >> >> ],
      \* a description of 600 characters
      [ SampleText EXCEPT
          !.email.description = Some(Repeat("x", 600)),
          !.collected = << "h", "t", "t", "p", "s", ":", "/", "/", "w", "w", "w", ".", "z", "i", "l",
            "l", "o", "w", ".", "c", "o", "m", "/", "h", "o", "m", "e", "d", "e", "t", "a", "i",
            "l", "s", "/", "1", "2", "3", " ", "D", "e", "s", "c", "r", "i", "p", "t", "i", "o",
            "n", ":", " " >> \o Repeat("x", 600) \o << " " >> ],
      \* four images
      [ SampleText EXCEPT
          !.email.images = << << "h", "t", "t", "p", "s", ":", "/", "/", "c", "d", "n", ".", "e", "x",
            "a", "m", "p", "l", "e", ".", "c", "o", "m", "/", "a", ".", "j", "p", "g" >>, << "h",
            "t", "t", "p", "s", ":", "/", "/", "c", "d", "n", ".", "e", "x", "a", "m", "p", "l",
            "e", ".", "c", "o", "m", "/", "b", ".", "j", "p", "g" >>, << "h", "t", "t", "p", "s",
            ":", "/", "/", "c", "d", "n", ".", "e", "x", "a", "m", "p", "l", "e", ".", "c", "o",
            "m", "/", "c", ".", "j", "p", "g" >>, << "h", "t", "t", "p", "s", ":", "/", "/", "c",
            "d", "n", ".", "e", "x", "a", "m", "p", "l", "e", ".", "c", "o", "m", "/", "d", ".",
            "j", "p", "g" >> >>,
          !.email.links = << << "h", "t", "t", "p", "s", ":", "/", "/", "w", "w", "w", ".", "z", "i",
            "l", "l", "o", "w", ".", "c", "o", "m", "/", "h", "o", "m", "e", "d", "e", "t", "a",
            "i", "l", "s", "/", "1", "2", "3" >>, << "h", "t", "t", "p", "s", ":", "/", "/", "w",
            "w", "w", ".", "z", "i", "l", "l", "o", "w", ".", "c", "o", "m", "/", "h", "o", "m",
            "e", "d", "e", "t", "a", "i", "l", "s", "/", "1", "2", "3" >>, << "h", "t", "t", "p",
            "s", ":", "/", "/", "c", "d", "n", ".", "e", "x", "a", "m", "p", "l", "e", ".", "c",
            "o", "m", "/", "a", ".", "j", "p", "g" >>, << "h", "t", "t", "p", "s", ":", "/", "/",
            "c", "d", "n", ".", "e", "x", "a", "m", "p", "l", "e", ".", "c", "o", "m", "/", "b",
            ".", "j", "p", "g" >>, << "h", "t", "t", "p", "s", ":", "/", "/", "c", "d", "n", ".",
            "e", "x", "a", "m", "p", "l", "e", ".", "c", "o", "m", "/", "c", ".", "j", "p", "g" >>,
            << "h", "t", "t", "p", "s", ":", "/", "/", "c", "d", "n", ".", "e", "x", "a", "m", "p",
            "l", "e", ".", "c", "o", "m", "/", "d", ".", "j", "p", "g" >> >>,
          !.collected = << "h", "t", "t", "p", "s", ":", "/", "/", "w", "w", "w", ".", "z", "i", "l",
            "l", "o", "w", ".", "c", "o", "m", "/", "h", "o", "m", "e", "d", "e", "t", "a", "i",
            "l", "s", "/", "1", "2", "3", " ", "h", "t", "t", "p", "s", ":", "/", "/", "c", "d",
            "n", ".", "e", "x", "a", "m", "p", "l", "e", ".", "c", "o", "m", "/", "a", ".", "j",
            "p", "g", " ", "h", "t", "t", "p", "s", ":", "/", "/", "c", "d", "n", ".", "e", "x",
            "a", "m", "p", "l", "e", ".", "c", "o", "m", "/", "b", ".", "j", "p", "g", " ", "h",
            "t", "t", "p", "s", ":", "/", "/", "c", "d", "n", ".", "e", "x", "a", "m", "p", "l",
            "e", ".", "c", "o", "m", "/", "c", ".", "j", "p", "g", " ", "h", "t", "t", "p", "s",
            ":", "/", "/", "c", "d", "n", ".", "e", "x", "a", "m", "p", "l", "e", ".", "c", "o",
            "m", "/", "d", ".", "j", "p", "g", " ", "D", "e", "s", "c", "r", "i", "p", "t", "i",
            "o", "n", ":", " ", "B", "r", "i", "g", "h", "t", " ", "h", "o", "m", "e", " ", "n",
            "e", "a", "r", " ", "t", "h", "e", " ", "p", "a", "r", "k", ".", " " >> ],
      \* two images
      [ SampleText EXCEPT
          !.email.images = << << "h", "t", "t", "p", "s", ":", "/", "/", "c", "d", "n", ".", "e", "x",
            "a", "m", "p", "l", "e", ".", "c", "o", "m", "/", "a", ".", "j", "p", "g" >>, << "h",
            "t", "t", "p", "s", ":", "/", "/", "c", "d", "n", ".", "e", "x", "a", "m", "p", "l",
            "e", ".", "c", "o", "m", "/", "b", ".", "j", "p", "g" >> >>,
          !.email.links = << << "h", "t", "t", "p", "s", ":", "/", "/", "w", "w", "w", ".", "z", "i",
            "l", "l", "o", "w", ".", "c", "o", "m", "/", "h", "o", "m", "e", "d", "e", "t", "a",
            "i", "l", "s", "/", "1", "2", "3" >>, << "h", "t", "t", "p", "s", ":", "/", "/", "w",
            "w", "w", ".", "z", "i", "l", "l", "o", "w", ".", "c", "o", "m", "/", "h", "o", "m",
            "e", "d", "e", "t", "a", "i", "l", "s", "/", "1", "2", "3" >>, << "h", "t", "t", "p",
            "s", ":", "/", "/", "c", "d", "n", ".", "e", "x", "a", "m", "p", "l", "e", ".", "c",
            "o", "m", "/", "a", ".", "j", "p", "g" >>, << "h", "t", "t", "p", "s", ":", "/", "/",
            "c", "d", "n", ".", "e", "x", "a", "m", "p", "l", "e", ".", "c", "o", "m", "/", "b",
            ".", "j", "p", "g" >> >>,
          !.collected = << "h", "t", "t", "p", "s", ":", "/", "/", "w", "w", "w", ".", "z", "i", "l",
            "l", "o", "w", ".", "c", "o", "m", "/", "h", "o", "m", "e", "d", "e", "t", "a", "i",
            "l", "s", "/", "1", "2", "3", " ", "h", "t", "t", "p", "s", ":", "/", "/", "c", "d",
            "n", ".", "e", "x", "a", "m", "p", "l", "e", ".", "c", "o", "m", "/", "a", ".", "j",
            "p", "g", " ", "h", "t", "t", "p", "s", ":", "/", "/", "c", "d", "n", ".", "e", "x",
            "a", "m", "p", "l", "e", ".", "c", "o", "m", "/", "b", ".", "j", "p", "g", " ", "D",
            "e", "s", "c", "r", "i", "p", "t", "i", "o", "n", ":", " ", "B", "r", "i", "g", "h",
            "t", " ", "h", "o", "m", "e", " ", "n", "e", "a", "r", " ", "t", "h", "e", " ", "p",
            "a", "r", "k", ".", " " >> ],
      \* links of several kinds
      [ SampleText EXCEPT
          !.email.links = << << "h", "t", "t", "p", "s", ":", "/", "/", "w", "w", "w", ".", "z", "i",
            "l", "l", "o", "w", ".", "c", "o", "m", "/", "h", "o", "m", "e", "d", "e", "t", "a",
            "i", "l", "s", "/", "1", "2", "3" >>, << "h", "t", "t", "p", "s", ":", "/", "/", "w",
            "w", "w", ".", "z", "i", "l", "l", "o", "w", ".", "c", "o", "m", "/", "h", "o", "m",
            "e", "d", "e", "t", "a", "i", "l", "s", "/", "1", "2", "3" >>, << "h", "t", "t", "p",
            "s", ":", "/", "/", "w", "w", "w", ".", "r", "e", "d", "f", "i", "n", ".", "c", "o",
            "m", "/", "h", "o", "m", "e", "/", "9" >>, << "h", "t", "t", "p", "s", ":", "/", "/",
            "m", "a", "i", "l", ".", "e", "x", "a", "m", "p", "l", "e", ".", "c", "o", "m", "/",
            "u", "n", "s", "u", "b", "s", "c", "r", "i", "b", "e" >>, << "h", "t", "t", "p", "s",
            ":", "/", "/", "w", "w", "w", ".", "a", "c", "m", "e", "r", "e", "a", "l", "t", "y",
            ".", "c", "o", "m", "/", "a", "g", "e", "n", "t", "/", "7" >>, << "h", "t", "t", "p",
            "s", ":", "/", "/", "e", "x", "a", "m", "p", "l", "e", ".", "c", "o", "m", "/", "h",
            "o", "u", "s", "e", "/", "5" >>, << "h", "t", "t", "p", "s", ":", "/", "/", "e", "x",
            "a", "m", "p", "l", "e", ".", "c", "o", "m", "/", "b", "l", "o", "g" >> >>,
          !.collected = << "h", "t", "t", "p", "s", ":", "/", "/", "w", "w", "w", ".", "z", "i", "l",
            "l", "o", "w", ".", "c", "o", "m", "/", "h", "o", "m", "e", "d", "e", "t", "a", "i",
            "l", "s", "/", "1", "2", "3", " ", "h", "t", "t", "p", "s", ":", "/", "/", "w", "w",
            "w", ".", "r", "e", "d", "f", "i", "n", ".", "c", "o", "m", "/", "h", "o", "m", "e",
            "/", "9", " ", "h", "t", "t", "p", "s", ":", "/", "/", "m", "a", "i", "l", ".", "e",
            "x", "a", "m", "p", "l", "e", ".", "c", "o", "m", "/", "u", "n", "s", "u", "b", "s",
            "c", "r", "i", "b", "e", " " >> ],
      \* a listing in the layout of a PDF flyer
      FlyerText,
      \* a flyer with the state written in lower case
      [ NoText EXCEPT
          !.blank = FALSE,
          !.email.address = Some(<< "4", "5", "6", " ", "O", "a", "k", " ", "A", "v", "e", "n", "u",
            "e" >>),
          !.email.price = << << "1", "8", "0", ",", "0", "0", "0" >> >>,
          !.pdf.address = Some(<< "4", "5", "6", " ", "O", "a", "k", " ", "A", "v", "e", "n", "u",
            "e" >>),
          !.pdf.price = << << "1", "8", "0", ",", "0", "0", "0" >>, << "1", "8", "0", ",", "0", "0",
            "0" >>, << "1", "8", "0", ",", "0", "0", "0" >> >>,
          !.pdf.city = Some(<< "P", "e", "o", "r", "i", "a" >>),
          !.pdf.state = Some(<< "i", "l" >>),
          !.pdf.zip_code = Some(<< "6", "1", "6", "0", "2" >>) ],
      \* a flyer without address and price
      [ NoText EXCEPT
          !.blank = FALSE,
          !.email.property_type = Some(<< "D", "u", "p", "l", "e", "x" >>),
          !.email.bedrooms = << << "4" >> >>,
          !.pdf.property_type = Some(<< "D", "u", "p", "l", "e", "x" >>),
          !.pdf.header_property_type = Some(<< "D", "u", "p", "l", "e", "x" >>),
          !.pdf.bedrooms = << << "4" >> >>,
          !.pdf.state = Some(<< "I", "L" >>) ],
      \* a flyer with a description of 600 characters
      [ NoText EXCEPT
          !.blank = FALSE,
          !.email.address = Some(<< "4", "5", "6", " ", "O", "a", "k", " ", "A", "v", "e", "n", "u",
            "e" >>),
          !.email.price = << << "1", "8", "0", ",", "0", "0", "0" >> >>,
          !.email.description = Some(Repeat("y", 600)),
          !.pdf.address = Some(<< "4", "5", "6", " ", "O", "a", "k", " ", "A", "v", "e", "n", "u",
            "e" >>),
          !.pdf.price = << << "1", "8", "0", ",", "0", "0", "0" >>, << "1", "8", "0", ",", "0", "0",
            "0" >>, << "1", "8", "0", ",", "0", "0", "0" >> >>,
          !.collected = Repeat("y", 600) \o << " " >> ],
      \* a flyer with a bedroom count of 400 digits
      [ NoText EXCEPT
          !.blank = FALSE,
          !.email.address = Some(<< "4", "5", "6", " ", "O", "a", "k", " ", "A", "v", "e", "n", "u",
            "e" >>),
          !.email.price = << << "1", "8", "0", ",", "0", "0", "0" >> >>,
          !.email.bedrooms = << << "0", "0", "0" >>, << Nines >> >>,
          !.pdf.address = Some(<< "4", "5", "6", " ", "O", "a", "k", " ", "A", "v", "e", "n", "u",
            "e" >>),
          !.pdf.price = << << "1", "8", "0", ",", "0", "0", "0" >>, << "1", "8", "0", ",", "0", "0",
            "0" >>, << "1", "8", "0", ",", "0", "0", "0" >> >>,
          !.pdf.bedrooms = << << Nines >>, << "0", "0", "0" >> >> ],
      \* an address with a state and no zip code
      [ SampleText EXCEPT
          !.email.address = Some(<< "1", "2", "3", " ", "M", "a", "i", "n", " ", "S", "t", ",", " ",
            "S", "p", "r", "i", "n", "g", "f", "i", "e", "l", "d", ",", " ", "I", "L" >>),
          !.pdf.address = Some(<< "1", "2", "3", " ", "M", "a", "i", "n", " ", "S", "t", ",", " ",
            "S", "p", "r", "i", "n", "g", "f", "i", "e", "l", "d", ",", " ", "I", "L" >>),
          !.pdf.city = None,
          !.pdf.state = None,
          !.pdf.zip_code = None ],
      \* an address of four parts with blanks around the city
      [ SampleText EXCEPT
          !.email.address = Some(<< "1", "2", "3", " ", "M", "a", "i", "n", " ", "S", "t", ",", " ",
            " ", "A", "p", "t", " ", "4", " ", ",", " ", "S", "p", "r", "i", "n", "g", "f", "i",
            "e", "l", "d", ",", " ", "I", "L", " ", "6", "2", "7", "0", "4" >>),
          !.pdf.address = Some(<< "1", "2", "3", " ", "M", "a", "i", "n", " ", "S", "t", ",", " ",
            " ", "A", "p", "t", " ", "4", " ", ",", " ", "S", "p", "r", "i", "n", "g", "f", "i",
            "e", "l", "d", ",", " ", "I", "L", " ", "6", "2", "7", "0", "4" >>) ],
      \* an address that ends with a comma
      [ SampleText EXCEPT
          !.email.address = Some(<< "1", "2", "3", " ", "M", "a", "i", "n", " ", "S", "t", ",", " ",
            "S", "p", "r", "i", "n", "g", "f", "i", "e", "l", "d", ",", " ", " " >>),
          !.pdf.address = Some(<< "1", "2", "3", " ", "M", "a", "i", "n", " ", "S", "t", ",", " ",
            "S", "p", "r", "i", "n", "g", "f", "i", "e", "l", "d", ",", " ", " " >>),
          !.pdf.city = None,
          !.pdf.state = None,
          !.pdf.zip_code = None ],
      \* a square footage and a lot size
      [ SampleText EXCEPT
          !.email.lot_size = << << "6", "0", "0", "0" >> >>,
          !.pdf.sqft = << << "1", "5", "0", "0" >>, << "6", "0", "0", "0" >> >>,
          !.pdf.lot_size = << << "6", "0", "0", "0" >> >> ],
      \* a flyer with a small size in the body and a larger one in the header
      [ NoText EXCEPT
          !.blank = FALSE,
          !.email.address = Some(<< "1", "2", " ", "E", "l", "m", " ", "S", "t", "r", "e", "e",
            "t" >>),
          !.email.price = << << "9", "9", ",", "0", "0", "0" >> >>,
          !.email.sqft = << << "1", ",", "8", "5", "0" >> >>,
          !.pdf.address = Some(<< "1", "2", " ", "E", "l", "m", " ", "S", "t", "r", "e", "e", "t" >>),
          !.pdf.price = << << "9", "9", ",", "0", "0", "0" >>, << "9", "9", ",", "0", "0", "0" >>,
            << "9", "9", ",", "0", "0", "0" >> >>,
          !.pdf.sqft = << << "1", "2", "0" >>, << "1", ",", "8", "5", "0" >>, << "8", "5", "0" >> >>,
          !.pdf.header_sqft = << << "1", ",", "8", "5", "0" >>, << "8", "5", "0" >>, << "1", ",", "8",
            "5", "0" >>, << "8", "5", "0" >>, << "1", ",", "8", "5", "0" >> >> ],
      \* a flyer with a small size in the body and a smaller one in the header
      [ NoText EXCEPT
          !.blank = FALSE,
          !.email.address = Some(<< "1", "2", " ", "E", "l", "m", " ", "S", "t", "r", "e", "e",
            "t" >>),
          !.email.price = << << "9", "9", ",", "0", "0", "0" >> >>,
          !.email.sqft = << << "1", "0", "0" >> >>,
          !.pdf.address = Some(<< "1", "2", " ", "E", "l", "m", " ", "S", "t", "r", "e", "e", "t" >>),
          !.pdf.price = << << "9", "9", ",", "0", "0", "0" >>, << "9", "9", ",", "0", "0", "0" >>,
            << "9", "9", ",", "0", "0", "0" >> >>,
          !.pdf.sqft = << << "4", "5", "0" >>, << "1", "0", "0" >>, << "1", "0", "0" >> >>,
          !.pdf.header_sqft = << << "1", "0", "0" >>, << "1", "0", "0" >>, << "1", "0", "0" >> >> ],
      \* a flyer with a lot and no square footage
      [ NoText EXCEPT
          !.blank = FALSE,
          !.email.address = Some(<< "4", "5", "6", " ", "O", "a", "k", " ", "A", "v", "e", "n", "u",
            "e" >>),
          !.email.price = << << "1", "8", "0", ",", "0", "0", "0" >> >>,
          !.pdf.address = Some(<< "4", "5", "6", " ", "O", "a", "k", " ", "A", "v", "e", "n", "u",
            "e" >>),
          !.pdf.price = << << "1", "8", "0", ",", "0", "0", "0" >>, << "1", "8", "0", ",", "0", "0",
            "0" >>, << "1", "8", "0", ",", "0", "0", "0" >> >>,
          !.pdf.lot_size = << << "7", ",", "5", "0", "0" >>, << "7", ",", "5", "0", "0" >> >> ],
      \* more links than are kept, an unwanted one in capitals, and images given twice or without a host
      [ SampleText EXCEPT
          !.email.images = << << "h", "t", "t", "p", "s", ":", "/", "/", "c", "d", "n", ".", "e", "x",
            "a", "m", "p", "l", "e", ".", "c", "o", "m", "/", "a", ".", "j", "p", "g" >>, << "h",
            "t", "t", "p", "s", ":", "/", "/", "c", "d", "n", ".", "e", "x", "a", "m", "p", "l",
            "e", ".", "c", "o", "m", "/", "a", ".", "j", "p", "g" >>, << "/", "s", "t", "a", "t",
            "i", "c", "/", "l", "o", "g", "o", ".", "p", "n", "g" >>, << "h", "t", "t", "p", "s",
            ":", "/", "/", "c", "d", "n", ".", "e", "x", "a", "m", "p", "l", "e", ".", "c", "o",
            "m", "/", "a", ".", "j", "p", "g" >> >>,
          !.email.links = << << "h", "t", "t", "p", "s", ":", "/", "/", "w", "w", "w", ".", "z", "i",
            "l", "l", "o", "w", ".", "c", "o", "m", "/", "h", "o", "m", "e", "d", "e", "t", "a",
            "i", "l", "s", "/", "1", "2", "3" >>, << "h", "t", "t", "p", "s", ":", "/", "/", "w",
            "w", "w", ".", "z", "i", "l", "l", "o", "w", ".", "c", "o", "m", "/", "h", "o", "m",
            "e", "d", "e", "t", "a", "i", "l", "s", "/", "1", "2", "3" >>, << "h", "t", "t", "p",
            "s", ":", "/", "/", "w", "w", "w", ".", "r", "e", "d", "f", "i", "n", ".", "c", "o",
            "m", "/", "h", "o", "m", "e", "/", "9" >>, << "h", "t", "t", "p", "s", ":", "/", "/",
            "w", "w", "w", ".", "t", "r", "u", "l", "i", "a", ".", "c", "o", "m", "/", "p", "/",
            "1" >>, << "h", "t", "t", "p", "s", ":", "/", "/", "w", "w", "w", ".", "a", "c", "m",
            "e", "r", "e", "a", "l", "t", "y", ".", "c", "o", "m", "/", "a", "g", "e", "n", "t",
            "/", "7" >>, << "h", "t", "t", "p", "s", ":", "/", "/", "e", "x", "a", "m", "p", "l",
            "e", ".", "c", "o", "m", "/", "h", "o", "u", "s", "e", "/", "5" >>, << "h", "t", "t",
            "p", "s", ":", "/", "/", "E", "x", "a", "m", "p", "l", "e", ".", "c", "o", "m", "/",
            "U", "N", "S", "U", "B", "S", "C", "R", "I", "B", "E", "/", "H", "o", "m", "e" >>,
            << "h", "t", "t", "p", "s", ":", "/", "/", "w", "w", "w", ".", "r", "e", "d", "f", "i",
            "n", ".", "c", "o", "m", "/", "h", "o", "m", "e", "/", "9" >>, << "h", "t", "t", "p",
            "s", ":", "/", "/", "c", "d", "n", ".", "e", "x", "a", "m", "p", "l", "e", ".", "c",
            "o", "m", "/", "a", ".", "j", "p", "g", "\"", ">" >>, << "h", "t", "t", "p", "s", ":",
            "/", "/", "c", "d", "n", ".", "e", "x", "a", "m", "p", "l", "e", ".", "c", "o", "m",
            "/", "a", ".", "j", "p", "g" >> >>,
          !.collected = << "h", "t", "t", "p", "s", ":", "/", "/", "w", "w", "w", ".", "z", "i", "l",
            "l", "o", "w", ".", "c", "o", "m", "/", "h", "o", "m", "e", "d", "e", "t", "a", "i",
            "l", "s", "/", "1", "2", "3", " ", "h", "t", "t", "p", "s", ":", "/", "/", "w", "w",
            "w", ".", "r", "e", "d", "f", "i", "n", ".", "c", "o", "m", "/", "h", "o", "m", "e",
            "/", "9", " ", "h", "t", "t", "p", "s", ":", "/", "/", "w", "w", "w", ".", "t", "r",
            "u", "l", "i", "a", ".", "c", "o", "m", "/", "p", "/", "1", " " >> ],
      \* a link to a page about a house and one to a page about nothing of the kind
      [ SampleText EXCEPT
          !.email.listing_url = Some(<< "h", "t", "t", "p", "s", ":", "/", "/", "e", "x", "a", "m",
            "p", "l", "e", ".", "c", "o", "m", "/", "h", "o", "u", "s", "e", "/", "5" >>),
          !.email.links = << << "h", "t", "t", "p", "s", ":", "/", "/", "e", "x", "a", "m", "p", "l",
            "e", ".", "c", "o", "m", "/", "h", "o", "u", "s", "e", "/", "5" >>, << "h", "t", "t",
            "p", "s", ":", "/", "/", "e", "x", "a", "m", "p", "l", "e", ".", "c", "o", "m", "/",
            "b", "l", "o", "g" >> >>,
          !.collected = << "B", "r", "i", "g", "h", "t", " ", "h", "o", "m", "e", " ", "n", "e", "a",
            "r", " ", "t", "h", "e", " ", "p", "a", "r", "k", ".", " " >> ] }

SampleTable ==
    << [name |-> << "a", "d", "d", "r", "e", "s", "s" >>, value |-> Str(<< "1", "2", "3", " ", "M", "a", "i", "n", " ", "S", "t" >>)],
       [name |-> << "c", "i", "t", "y" >>, value |-> Str(<< "S", "p", "r", "i", "n", "g", "f", "i", "e", "l", "d" >>)],
       [name |-> << "s", "t", "a", "t", "e" >>, value |-> Str(<< "I", "L" >>)],
       [name |-> << "z", "i", "p" >>, value |-> Integer(62704)],
       [name |-> << "p", "r", "o", "p", "e", "r", "t", "y", "_", "t", "y", "p", "e" >>, value |-> Str(<< "S", "i", "n", "g", "l", "e", " ", "F", "a", "m", "i", "l", "y" >>)],
       [name |-> << "p", "r", "i", "c", "e" >>, value |-> Integer(250000)],
       [name |-> << "r", "e", "n", "t" >>, value |-> Integer(2000)],
       [name |-> << "b", "e", "d", "r", "o", "o", "m", "s" >>, value |-> Integer(3)],
       [name |-> << "b", "a", "t", "h", "r", "o", "o", "m", "s" >>, value |-> Floating(Rat(5, 2))],
       [name |-> << "s", "q", "f", "t" >>, value |-> Integer(1500)],
       [name |-> << "y", "e", "a", "r", "_", "b", "u", "i", "l", "t" >>, value |-> Integer(1995)],
       [name |-> << "d", "e", "s", "c", "r", "i", "p", "t", "i", "o", "n" >>, value |-> Str(<< "B", "r", "i", "g", "h", "t", " ", "h", "o", "m", "e", " ", "n", "e", "a", "r", " ", "t", "h", "e", " ", "p", "a", "r", "k", "." >>)],
       [name |-> << "u", "r", "l" >>, value |-> Str(<< "h", "t", "t", "p", "s", ":", "/", "/", "w", "w", "w", ".", "z", "i", "l", "l", "o", "w", ".", "c", "o", "m", "/", "h", "o", "m", "e", "d", "e", "t", "a", "i", "l", "s", "/", "1", "2", "3" >>)] >>

\* the table with another cell in the column of that name
Holding(table, name, value) ==
    [i \in DOMAIN table |-> IF table[i].name = name THEN [table[i] EXCEPT !.value = value]
                            ELSE table[i]]

\* the table without the column of that name
Lacking(table, name) == SelectSeq(table, LAMBDA column : column.name # name)

\* the table with one more column, before or after the others
Leading(table, name, value) == << [name |-> name, value |-> value] >> \o table

Trailing(table, name, value) == Append(table, [name |-> name, value |-> value])

ListingTables ==
    { SampleTable,
      \* no column for the property type, or an empty cell in it
      Lacking(SampleTable, << "p", "r", "o", "p", "e", "r", "t", "y", "_", "t", "y", "p", "e" >>),
      Holding(SampleTable, << "p", "r", "o", "p", "e", "r", "t", "y", "_", "t", "y", "p", "e" >>, NaN),
      Holding(SampleTable, << "p", "r", "o", "p", "e", "r", "t", "y", "_", "t", "y", "p", "e" >>, Str(<< "T", "i", "n", "y", " ", "H", "o", "u", "s", "e" >>)),
      \* a number where the property type is expected
      Holding(SampleTable, << "p", "r", "o", "p", "e", "r", "t", "y", "_", "t", "y", "p", "e" >>, Integer(3)),
      \* numbers below zero, as numbers and as text
      Holding(SampleTable, << "p", "r", "i", "c", "e" >>, Integer(-250000)),
      Holding(SampleTable, << "r", "e", "n", "t" >>, Str(<< "-", "2", ",", "0", "0", "0" >>)),
      Holding(SampleTable, << "b", "e", "d", "r", "o", "o", "m", "s" >>, Integer(-3)),
      Holding(SampleTable, << "b", "a", "t", "h", "r", "o", "o", "m", "s" >>, Floating(Rat(-3, 2))),
      Holding(SampleTable, << "s", "q", "f", "t" >>, Str(<< "-", "1", "5", "0", "0" >>)),
      \* numbers written as text
      Holding(SampleTable, << "p", "r", "i", "c", "e" >>, Str(<< "$", "2", "5", "0", ",", "0", "0", "0" >>)),
      Holding(SampleTable, << "b", "a", "t", "h", "r", "o", "o", "m", "s" >>, Str(<< "2", ".", "5" >>)),
      Holding(SampleTable, << "b", "e", "d", "r", "o", "o", "m", "s" >>, Str(<< " ", "3", " " >>)),
      \* a zip code with a leading zero, kept as text
      Holding(SampleTable, << "z", "i", "p" >>, Str(<< "0", "2", "1", "3", "4" >>)),
      \* a long description
      Holding(SampleTable, << "d", "e", "s", "c", "r", "i", "p", "t", "i", "o", "n" >>, Str(Repeat("z", 600))),
      Lacking(SampleTable, << "d", "e", "s", "c", "r", "i", "p", "t", "i", "o", "n" >>),
      \* a state written out, and none
      Holding(SampleTable, << "s", "t", "a", "t", "e" >>, Str(<< "I", "l", "l", "i", "n", "o", "i", "s" >>)),
      Lacking(SampleTable, << "s", "t", "a", "t", "e" >>),
      \* a column named in capitals
      Leading(Lacking(SampleTable, << "p", "r", "i", "c", "e" >>), << "P", "R", "I", "C", "E" >>, Integer(250000)),
      \* a location before a street: "street" is the earlier synonym
      Leading(Leading(Lacking(SampleTable, << "a", "d", "d", "r", "e", "s", "s" >>), << "S", "t", "r", "e", "e", "t" >>, Str(<< "5", " ", "E", "l", "m", " ", "S", "t" >>)), << "L", "o", "c", "a", "t", "i", "o", "n" >>, Str(<< "D", "o", "w", "n", "t", "o", "w", "n" >>)),
      \* a blank address and a street; an empty price and an asking price
      Trailing(Holding(SampleTable, << "a", "d", "d", "r", "e", "s", "s" >>, Str(<< " ", " ", " " >>)), << "s", "t", "r", "e", "e", "t" >>, Str(<< "5", " ", "E", "l", "m", " ", "S", "t" >>)),
      Trailing(Holding(SampleTable, << "p", "r", "i", "c", "e" >>, NaN), << "a", "s", "k", "i", "n", "g", "_", "p", "r", "i", "c", "e" >>, Str(<< "$", "1", "9", "9", ",", "5", "0", "0" >>)),
      \* an empty price and a blank city, and no other column for them
      Holding(Holding(SampleTable, << "p", "r", "i", "c", "e" >>, NaN), << "c", "i", "t", "y" >>, Str(<< " " >>)),
      \* a column whose name holds the synonyms of two fields
      Leading(SampleTable, << "r", "e", "n", "t", "a", "l", " ", "p", "r", "i", "c", "e" >>, Integer(1800)),
      \* a header line and no row
      << >> }

file_name == << "l", "i", "s", "t", "i", "n", "g" >>

\* the message of the exception the reader of a file raises
read_error == << "c", "a", "n", "n", "o", "t", " ", "r", "e", "a", "d", " ", "t", "h", "e", " ", "f", "i", "l", "e" >>

Upload(mode, file_type, readable, text, table) ==
    [ mode |-> mode, file_type |-> file_type, name |-> file_name, readable |-> readable,
      error |-> read_error, text |-> text, table |-> table ]

TextTags == { << ".", "p", "d", "f" >>, << ".", "t", "x", "t" >> }

TableTags == { << ".", "c", "s", "v" >>, << ".", "x", "l", "s", "x" >>, << ".", "x", "l", "s" >> }

\* recognized tags in other letter cases, and tags that are not recognized
OtherTags == { << ".", "P", "D", "F" >>, << ".", "C", "s", "v" >>, << ".", "T", "X", "T" >>, << ".", "d", "o", "c", "x" >>, << "p", "d", "f" >>, << >> }

Uploads ==
    {Upload("email", << >>, TRUE, text, << >>) : text \in ListingTexts}
      \cup {Upload("file", tag, TRUE, text, << >>) : tag \in TextTags, text \in ListingTexts}
      \cup {Upload("file", tag, TRUE, NoText, table) : tag \in TableTags, table \in ListingTables}
      \cup {Upload("file", tag, TRUE, SampleText, SampleTable) : tag \in OtherTags}
      \cup {Upload("file", tag, FALSE, NoText, << >>) : tag \in TextTags \cup TableTags}
      \cup {Upload("file", tag, TRUE, NoText, << >>) : tag \in TextTags}

(***************************************************************************)
(* The program: runs of main() and calls of update_investment_criteria.    *)
(***************************************************************************)
\* nothing was handed to the extraction
NotExtracting ==
    /\ upload = None
    /\ extraction = None
    /\ earlier = None
    /\ raw_type = None
    /\ normalized_type = None

NotRun ==
    /\ pc = "start"
    /\ property_data = None
    /\ criteria = None
    /\ deal_analysis = None
    /\ previous = None
    /\ updates = 0

\* the STR metrics the expense overrides are enumerated with
OverrideStrMetrics ==
    { [adr |-> None, occupancy_rate |-> None],
      [adr |-> Some(Cents(100 * MaxAdr)),
       occupancy_rate |-> Some(Rat(25 * MaxOccupancy, 100))] }

\* one evaluation: any criteria file, any listing, any additional data
\* (expense overrides are enumerated against the complete file)
Init ==
    /\ criteria_file \in CriteriaFiles
    /\ property_info \in PropertyInfos
    /\ additional_data \in AdditionalData
    /\ (additional_data.monthly_expenses # NoExpenses =>
            /\ criteria_file = BaseFile
            /\ additional_data.str_metrics \in OverrideStrMetrics)
    /\ NotRun
    /\ NotExtracting

\* main(), lines 19-146: build the Property, merge, analyze, exit
main ==
    /\ pc = "start"
    /\ LET p == merge_additional_data(Property(property_info), additional_data)
           c == load_investment_criteria(criteria_file)
           outcome == analyze_deal(p, c)
       IN  /\ property_data' = p
           /\ criteria' = c
           /\ deal_analysis' = outcome
           /\ pc' = IF outcome.kind = "return" THEN "exit0" ELSE "exit1"
    /\ UNCHANGED << criteria_file, property_info, additional_data, previous, updates >>
    /\ UNCHANGED extraction_vars

Next == main

Spec == Init /\ [][Next]_vars

\* one evaluation of a long-term listing under varied financing lines
InitFinancing ==
    /\ criteria_file \in FinancingFiles
    /\ property_info \in FinancedInfos
    /\ additional_data = NoAdditionalData
    /\ NotRun
    /\ NotExtracting

SpecFinancing == InitFinancing /\ [][Next]_vars

\* what a caller may pass as new_criteria: decimals, each key optional
NewCriteria ==
    [ price_max : {None, Some(Rat(250000, 1))},
      coc_return_min : {None, Some(Rat(4, 100))},
      coc_return_max : {None, Some(Rat(10, 100))},
      cap_rate_min : {None, Some(Rat(5, 100))},
      cap_rate_max : {None, Some(Rat(9, 100))} ]

\* the paths a caller may pass as filepath
FilePaths == {CriteriaPath, "no_such_file.md"}

\* a call of update_investment_criteria
update ==
    /\ updates < MaxUpdates
    /\ \E filepath \in FilePaths, new_criteria \in NewCriteria :
           criteria_file' = update_result(filepath, criteria_file, new_criteria).file
    /\ updates' = updates + 1
    /\ UNCHANGED << property_info, additional_data, pc, property_data, criteria,
                    deal_analysis, previous >>
    /\ UNCHANGED extraction_vars

\* the process has exited; main() is run again on the same listing
next_run ==
    /\ pc \in {"exit0", "exit1"}
    /\ pc' = "start"
    /\ previous' = Some([property |-> property_data, criteria |-> criteria,
                         outcome |-> deal_analysis])
    /\ property_data' = None
    /\ criteria' = None
    /\ deal_analysis' = None
    /\ UNCHANGED << criteria_file, property_info, additional_data, updates >>
    /\ UNCHANGED extraction_vars

\* repeated evaluations of one listing against the complete criteria file,
\* with updates of the file in between
InitRuns ==
    /\ criteria_file = BaseFile
    /\ property_info \in PropertyInfos
    /\ additional_data \in AdditionalData
    /\ additional_data.monthly_expenses = NoExpenses
    /\ additional_data.str_metrics \in OverrideStrMetrics
    /\ NotRun
    /\ NotExtracting

NextRuns == main \/ update \/ next_run

SpecRuns == InitRuns /\ [][NextRuns]_vars

\* main() is not run: the listing it would be given does not matter
NoListing ==
    [ property_type |-> "single-family", state |-> "Illinois",
      purchase_price |-> 0, monthly_rent |-> 0 ]

\* a call of normalize_property_type
normalize ==
    /\ ~IsNone(raw_type)
    /\ IsNone(normalized_type)
    /\ normalized_type' = Some(normalize_property_type(raw_type))
    /\ UNCHANGED << analysis_vars, upload, extraction, earlier, raw_type >>

InitNormalize ==
    /\ criteria_file = BaseFile
    /\ property_info = NoListing
    /\ additional_data = NoAdditionalData
    /\ NotRun
    /\ upload = None
    /\ extraction = None
    /\ earlier = None
    /\ raw_type \in {Some(t) : t \in TypeTexts}
    /\ normalized_type = None

NextNormalize == normalize

SpecNormalize == InitNormalize /\ [][NextNormalize]_vars

\* the number of times one upload is handed to the extraction
MaxParses == 2

\* main.py line 56: the e-mail read from the input goes to parse_email_alert
parse_email ==
    /\ ~IsNone(upload)
    /\ Val(upload).mode = "email"
    /\ IsNone(extraction)
    /\ \E image_order \in Orders(image_candidates(Val(upload).text.email.images)) :
          extraction' = Some(parse_email_alert(Val(upload).text.email, image_order))
    /\ UNCHANGED << analysis_vars, upload, earlier, raw_type, normalized_type >>

\* file_analysis.py line 23: the uploaded file goes to parse_file_content
parse_file ==
    /\ ~IsNone(upload)
    /\ Val(upload).mode = "file"
    /\ IsNone(extraction)
    /\ \E image_order \in Orders(image_candidates(Val(upload).text.email.images)) :
          extraction' = Some(parse_file_content(Val(upload), image_order))
    /\ UNCHANGED << analysis_vars, upload, earlier, raw_type, normalized_type >>

\* the same upload is handed in again, to a new process
next_parse ==
    /\ ~IsNone(extraction)
    /\ Len(earlier) + 1 < MaxParses
    /\ earlier' = Append(earlier, Val(extraction))
    /\ extraction' = None
    /\ UNCHANGED << analysis_vars, upload, raw_type, normalized_type >>

InitExtract ==
    /\ criteria_file = BaseFile
    /\ property_info = NoListing
    /\ additional_data = NoAdditionalData
    /\ NotRun
    /\ upload \in {Some(file) : file \in Uploads}
    /\ extraction = None
    /\ earlier = << >>
    /\ raw_type = None
    /\ normalized_type = None

NextExtract == parse_email \/ parse_file \/ next_parse

SpecExtract == InitExtract /\ [][NextExtract]_vars

(***************************************************************************)
(* Properties of one evaluation                                            *)
(***************************************************************************)
Returned == pc = "exit0"

Raised == pc = "exit1"

\* the DealAnalysis a run returned, its Property, and the criteria it used
analysis == deal_analysis.value

StrRan == ~IsNone(property_data.adr) /\ ~IsNone(property_data.occupancy_rate)

\* the long-term monthly expense lines of the analysed Property, re-stated
LoanAmount == property_data.purchase_price - analysis.calculated_downpayment

MortgagePayment == MulDiv(LoanAmount, AnnuityFactor, FactorOne)

LongTermExpenses ==
    MortgagePayment
        + MulDiv(property_data.purchase_price, 1, 1000)
        + 10000
        + MulDiv(property_data.monthly_rent, 5, 100)
        + analysis.estimated_maintenance_reserve
        + MulDiv(property_data.monthly_rent, 10, 100)

OperatingExpenses == LongTermExpenses - MortgagePayment

\* C1: analyze_deal sets meets_criteria exactly when the type is allowed, the
\* state is the target location, the price is within the cap, the 1% rule
\* passes, cash flow is positive, the COC and cap minimums are met and, only
\* when the STR branch ran, the STR criteria are met.
C1_MeetsCriteriaIsTheConjunction ==
    Returned =>
        (analysis.meets_criteria <=>
            /\ InList(property_data.property_type, criteria["property_types"])
            /\ property_data.state = criteria["location"]
            /\ property_data.purchase_price <= criteria["max_purchase_price"]
            /\ analysis.passes_1_percent_rule
            /\ analysis.cash_flow_positive
            /\ analysis.coc_meets_minimum
            /\ analysis.cap_meets_minimum
            /\ (StrRan => Val(analysis.str_meets_criteria)))

\* a listing with STR data that meets every criterion
C1_Witness == Returned /\ StrRan /\ analysis.meets_criteria

\* every key analyze_deal can read is in the loaded criteria
CompleteCriteria ==
    /\ IsNone(FirstMissing(criteria, CalculationKeys))
    /\ Has(criteria, "property_types")
    /\ Has(criteria, "location")
    /\ Has(criteria, "max_purchase_price")

\* C2: with complete criteria analyze_deal returns a DealAnalysis and never
\* raises, whatever the Property and whichever STR thresholds are configured.
C2_NeverRaisesOnCompleteCriteria == (pc # "start" /\ CompleteCriteria) => Returned

\* C3: coc_return is 0 when total_cash_needed <= 0 and 12 * cash_flow /
\* total_cash_needed otherwise; cap_rate is 0 when purchase_price <= 0 and
\* noi / purchase_price otherwise.
C3_ZeroGuards ==
    Returned =>
        /\ analysis.coc_return =
              IF analysis.total_cash_needed <= 0 THEN [n |-> 0, d |-> 1]
              ELSE Rat(12 * analysis.cash_flow, analysis.total_cash_needed)
        /\ analysis.cap_rate =
              IF property_data.purchase_price <= 0 THEN [n |-> 0, d |-> 1]
              ELSE Rat(12 * property_data.monthly_rent - 12 * OperatingExpenses,
                       property_data.purchase_price)

\* a negative price: total_cash_needed is negative and both guards act
C3_Witness ==
    /\ Returned
    /\ analysis.total_cash_needed < 0
    /\ property_data.purchase_price < 0
    /\ analysis.cash_flow # 0

\* C4: with adr or occupancy_rate unset the four STR results are None,
\* whatever the overrides and the STR thresholds; with both set
\* str_meets_criteria is a boolean.
C4_StrGating ==
    Returned =>
        /\ (IsNone(property_data.adr) \/ IsNone(property_data.occupancy_rate)) =>
              /\ IsNone(analysis.projected_annual_revenue)
              /\ IsNone(analysis.projected_gross_yield)
              /\ IsNone(analysis.str_net_income)
              /\ IsNone(analysis.str_meets_criteria)
        /\ (~IsNone(property_data.adr) /\ ~IsNone(property_data.occupancy_rate)) =>
              /\ ~IsNone(analysis.str_meets_criteria)
              /\ Val(analysis.str_meets_criteria) \in BOOLEAN

\* an adr without an occupancy rate, against a file with STR thresholds
C4_Witness ==
    /\ Returned
    /\ ~IsNone(property_data.adr)
    /\ IsNone(property_data.occupancy_rate)
    /\ Has(criteria, "str_adr_minimum")
    /\ IsNone(analysis.str_meets_criteria)

SomeKeyMissing == ~CompleteCriteria

\* C6 (as claimed): with any required criteria field absent analyze_deal
\* fails for every Property.
C6_MissingCriteriaAlwaysFails == (pc # "start" /\ SomeKeyMissing) => Raised

KeyErrorRaised == Raised /\ deal_analysis.exception = "KeyError"

TypeAllowed == InList(property_data.property_type, criteria["property_types"])

\* C6 (amended): with a calculation field (downpayment, closing-cost,
\* initial-fixed-cost, maintenance-reserve, COC, cap rate) or the property
\* types absent, analyze_deal fails for every Property.  An absent location
\* fails it for every Property whose type is allowed, and an absent max
\* purchase price for every Property whose type is allowed and whose state
\* is the location; for any other Property the absent key is not read, no
\* missing-key error is raised, and a DealAnalysis that is returned has
\* meets_criteria false.
C6_MissingCriteriaFailWhenRead ==
    pc # "start" =>
        /\ ~IsNone(FirstMissing(criteria, CalculationKeys)) => KeyErrorRaised
        /\ ~Has(criteria, "property_types") => Raised
        /\ (Has(criteria, "property_types") /\ ~Has(criteria, "location")) =>
              /\ TypeAllowed => Raised
              /\ ~TypeAllowed => ~KeyErrorRaised
        /\ (/\ Has(criteria, "property_types")
            /\ Has(criteria, "location")
            /\ ~Has(criteria, "max_purchase_price")) =>
              /\ (TypeAllowed /\ property_data.state = criteria["location"]) => Raised
              /\ ~(TypeAllowed /\ property_data.state = criteria["location"]) =>
                    ~KeyErrorRaised
        /\ (Returned /\ SomeKeyMissing) => ~analysis.meets_criteria

\* a DealAnalysis is returned although the criteria have no location
C6_Witness ==
    /\ Returned
    /\ ~Has(criteria, "location")
    /\ ~analysis.meets_criteria

C8_ThresholdComparisons ==
    Returned =>
        /\ analysis.coc_meets_benchmark <=>
              /\ RatLe(criteria["coc_benchmark_min"], analysis.coc_return)
              /\ RatLe(analysis.coc_return, criteria["coc_benchmark_max"])
        /\ analysis.coc_meets_minimum <=>
              /\ RatLe(criteria["coc_minimum_min"], analysis.coc_return)
              /\ RatLe(analysis.coc_return, criteria["coc_minimum_max"])
        /\ analysis.cap_meets_benchmark <=>
              /\ RatLe(criteria["cap_benchmark_min"], analysis.cap_rate)
              /\ RatLe(analysis.cap_rate, criteria["cap_benchmark_max"])
        /\ analysis.cap_meets_minimum <=>
              RatLe(criteria["cap_minimum"], analysis.cap_rate)

\* a COC return inside the benchmark range and above the minimum range, and
\* a cap rate inside the benchmark range
C8_Witness ==
    /\ Returned
    /\ analysis.coc_meets_benchmark
    /\ RatLt(criteria["coc_minimum_max"], analysis.coc_return)
    /\ ~analysis.coc_meets_minimum
    /\ analysis.cap_meets_benchmark
    /\ analysis.cap_meets_minimum

\* C9: when the STR branch ran, str_meets_criteria holds exactly when every
\* STR threshold the criteria have is met (equality passes); an absent
\* threshold never fails it.
C9_StrMeetsCriteria ==
    (Returned /\ StrRan) =>
        (Val(analysis.str_meets_criteria) <=>
            /\ Has(criteria, "str_adr_minimum") =>
                  Val(property_data.adr) >= criteria["str_adr_minimum"]
            /\ Has(criteria, "str_occupancy_rate_minimum") =>
                  RatLe(criteria["str_occupancy_rate_minimum"],
                        Val(property_data.occupancy_rate))
            /\ Has(criteria, "str_gross_yield_minimum") =>
                  RatLe(criteria["str_gross_yield_minimum"],
                        Val(analysis.projected_gross_yield))
            /\ Has(criteria, "str_annual_revenue_minimum") =>
                  Val(analysis.projected_annual_revenue) >=
                      criteria["str_annual_revenue_minimum"])

\* the ADR, occupancy and revenue equal their thresholds and the yield
\* threshold is absent
C9_Witness ==
    /\ Returned
    /\ StrRan
    /\ Val(analysis.str_meets_criteria)
    /\ ~Has(criteria, "str_gross_yield_minimum")
    /\ Has(criteria, "str_adr_minimum")
    /\ Val(property_data.adr) = criteria["str_adr_minimum"]
    /\ Has(criteria, "str_annual_revenue_minimum")
    /\ Val(analysis.projected_annual_revenue) = criteria["str_annual_revenue_minimum"]

\* the value the user supplied for an expense line, or the derived default
Supplied(line, default) ==
    IF ~IsNone(additional_data.monthly_expenses[line])
      THEN Val(additional_data.monthly_expenses[line])
      ELSE default

Revenue == Val(analysis.projected_annual_revenue)

\* C10: in the STR branch every expense line uses the value the user
\* supplied, zero included, and its derived default only when none was
\* supplied; the total adds the long-term mortgage payment, and
\* str_net_income is projected_annual_revenue / 12 minus the total.
C10_StrExpensesUseSuppliedValues ==
    (Returned /\ StrRan) =>
        /\ Val(analysis.total_monthly_expenses) =
              MortgagePayment
                + Supplied("property_taxes", MulDiv(property_data.purchase_price, 1, 1000))
                + Supplied("insurance", 10000)
                + Supplied("utilities", 15000)
                + Supplied("management", MulDiv(Revenue, 15, 1200))
                + Supplied("maintenance", MulDiv(Revenue, 5, 1200))
                + Supplied("cleaning",
                           MulDiv(7500 * 30, Val(property_data.occupancy_rate).n,
                                  Val(property_data.occupancy_rate).d))
                + Supplied("supplies", 5000)
                + Supplied("other", 0)
        /\ Val(analysis.str_net_income) =
              MulDiv(Revenue, 1, 12) - Val(analysis.total_monthly_expenses)

\* the financing lines of the criteria file, as percentages
DownpaymentRange == Val(criteria_file.downpayment)

ClosingCostsRange == Val(criteria_file.closing_costs)

\* C11: downpayment and closing costs are the price times the mean of their
\* ranges, initial fixed costs the price times their percentage,
\* total_cash_needed their sum; the mortgage payment inside cash_flow is the
\* 7% / 360-month annuity payment on price - downpayment, and coc_return is
\* 12 * cash_flow / total_cash_needed; for price 200000, rent 2000 and a
\* downpayment range of 15%-25% the downpayment is 40000 and the payment is
\* within a cent of 1064.48.
C11_FinancingAndCoc ==
    Returned =>
        LET price == property_data.purchase_price
            rent == property_data.monthly_rent
            payment == rent - analysis.cash_flow - OperatingExpenses
        IN  /\ analysis.calculated_downpayment =
                  MulDiv(price, DownpaymentRange[1] + DownpaymentRange[2], 200)
            /\ analysis.calculated_closing_costs =
                  MulDiv(price, ClosingCostsRange[1] + ClosingCostsRange[2], 200)
            /\ analysis.calculated_initial_fixed_costs =
                  MulDiv(price, Val(criteria_file.initial_fixed_costs), 100)
            /\ analysis.total_cash_needed =
                  analysis.calculated_downpayment + analysis.calculated_closing_costs
                      + analysis.calculated_initial_fixed_costs
            \* 0.00665302 is the tabulated payment per unit of a 30-year 7% loan
            /\ Abs(payment - MulDiv(price - analysis.calculated_downpayment,
                                    665302, 10 ^ 8)) <= 1
            /\ analysis.total_cash_needed > 0 =>
                  analysis.coc_return =
                      Rat(12 * analysis.cash_flow, analysis.total_cash_needed)
            /\ (price = Cents(200000) /\ rent = Cents(2000) /\ DownpaymentRange = << 15, 25 >>) =>
                  /\ analysis.calculated_downpayment = Cents(40000)
                  /\ Abs(payment - 106448) <= 1

\* the listing of the example: 200000, rent 2000, downpayment 15%-25%
C11_Witness ==
    /\ Returned
    /\ property_data.purchase_price = Cents(200000)
    /\ property_data.monthly_rent = Cents(2000)
    /\ DownpaymentRange = << 15, 25 >>
    /\ analysis.calculated_downpayment = Cents(40000)
    /\ analysis.total_cash_needed > 0

\* C12: for a positive price cap_rate is (12 * rent - 12 * (maintenance
\* reserve + price * 0.012 / 12 + 100 + 5% of rent + 10% of rent)) / price,
\* the maintenance reserve being rent times its percentage; no financing line
\* of the criteria enters it.
C12_CapRateExcludesFinancing ==
    (Returned /\ property_data.purchase_price > 0) =>
        LET price == property_data.purchase_price
            rent == property_data.monthly_rent
            reserve == MulDiv(rent, Val(criteria_file.maintenance_reserve), 100)
        IN  /\ analysis.estimated_maintenance_reserve = reserve
            /\ analysis.cap_rate =
                  Rat(12 * rent
                        - 12 * (reserve + MulDiv(price, 12, 12000) + 10000
                                  + MulDiv(rent, 5, 100) + MulDiv(rent, 10, 100)),
                      price)

\* a financed listing under the wider downpayment range, the lower closing
\* costs and the higher fixed costs
C12_Witness ==
    /\ Returned
    /\ property_data.purchase_price = Cents(200000)
    /\ property_data.monthly_rent = Cents(2000)
    /\ DownpaymentRange = << 15, 25 >>
    /\ ClosingCostsRange = << 3, 6 >>
    /\ Val(criteria_file.initial_fixed_costs) = 2
    /\ Val(criteria_file.maintenance_reserve) = 5
    /\ analysis.cap_rate = Rat(78, 1000)

\* C13: passes_1_percent_rule holds exactly when the rent is at least one
\* percent of the price, the boundary included; a rent of 0 passes only when
\* the price is not positive.
C13_OnePercentRule ==
    Returned =>
        /\ analysis.passes_1_percent_rule <=>
              100 * property_data.monthly_rent >= property_data.purchase_price
        /\ (property_data.monthly_rent = 0 /\ analysis.passes_1_percent_rule) =>
              property_data.purchase_price <= 0
        /\ (property_data.purchase_price = Cents(150000)
                /\ property_data.monthly_rent \in {Cents(1500), Cents(1600)}) =>
              analysis.passes_1_percent_rule

\* rent 1500 on price 150000: the boundary passes
C13_Witness ==
    /\ Returned
    /\ property_data.purchase_price = Cents(150000)
    /\ property_data.monthly_rent = Cents(1500)
    /\ analysis.passes_1_percent_rule

(***************************************************************************)
(* Properties of normalize_property_type                                   *)
(***************************************************************************)
Normalized == ~IsNone(normalized_type)

\* the argument in lower case without its surrounding blanks
TypeKey == strip(lower(Val(raw_type)))

HasSingleFamily == Contains(<< "s", "i", "n", "g", "l", "e" >>, TypeKey) /\ Contains(<< "f", "a", "m", "i", "l", "y" >>, TypeKey)

HasMultiFamily == Contains(<< "m", "u", "l", "t", "i" >>, TypeKey) /\ Contains(<< "f", "a", "m", "i", "l", "y" >>, TypeKey)

\* the spellings the function maps to a tag of its own
RecognizedType ==
    \/ TypeKey \in single_family_forms \cup multi_family_forms \cup townhouse_forms
    \/ TypeKey \in condo_forms \cup fourplex_forms \cup {duplex, triplex}
    \/ HasSingleFamily
    \/ HasMultiFamily

Extracted == ~IsNone(extraction)

\* the upload, what its extraction returned or raised, and the record
File == Val(upload)

Outcome == Val(extraction)

Record == Outcome.value

ByEmail == File.mode = "email"

Tag == lower(File.file_type)

RecognizedTags == { << ".", "p", "d", "f" >>, << ".", "c", "s", "v" >>, << ".", "x", "l", "s", "x" >>, << ".", "x", "l", "s" >>, << ".", "t", "x", "t" >> }

ErrorDefaults(record) ==
    /\ record.purchase_price = Zero
    /\ record.monthly_rent = Zero
    /\ record.bedrooms = Zero
    /\ record.square_footage = Zero
    /\ record.property_type = unknown_type
    /\ record.state = unknown_place
    /\ record.zip_code = unknown_zip

\* C14: parse_file_content raises exactly for a tag that is not .pdf, .csv,
\* .xlsx, .xls or .txt in any letter case; for a recognized tag it returns a
\* record, the error-default record when the file cannot be read; and
\* parse_email_alert returns a record for every text.
C14_FailsOnlyOnUnknownTag ==
    Extracted =>
        IF ByEmail THEN Outcome.kind = "return"
        ELSE /\ Outcome.kind = "raise" <=> Tag \notin RecognizedTags
             /\ (Tag \in RecognizedTags /\ ~File.readable) => ErrorDefaults(Record)

\* C15: parse_email_alert applied again to the same text returns the same
\* Property in every field, the image URLs and source links it keeps and their
\* order included.
C15_SameTextSameRecord ==
    \A i \in DOMAIN earlier : (Extracted /\ ByEmail) => Outcome = earlier[i]

\* the Property of a failure: lines 54-68, 127-141, 208-222, 248-262, 275-289
IsErrorRecord(record) ==
    \/ record.address \in { << "P", "D", "F", " ", "P", "a", "r", "s", "e", " ", "E", "r", "r", "o", "r" >>,
                            << "C", "S", "V", " ", "P", "a", "r", "s", "e", " ", "E", "r", "r", "o", "r" >>,
                            << "E", "x", "c", "e", "l", " ", "P", "a", "r", "s", "e", " ", "E", "r", "r", "o", "r" >>,
                            << "T", "e", "x", "t", " ", "P", "a", "r", "s", "e", " ", "E", "r", "r", "o", "r" >> }
    \/ startswith(record.address, << "P", "D", "F", " ", "F", "i", "l", "e", ":", " " >>)

\* the extraction read the upload and made a Property of its content
Parsed ==
    /\ Extracted
    /\ Outcome.kind = "return"
    /\ ByEmail \/ ~IsErrorRecord(Record)

ReadAsText == ByEmail \/ Tag \in TextTags

ReadAsTable == ~ByEmail /\ Tag \in TableTags

\* the table parse_csv_file reads
TableRead == IF Tag = << ".", "c", "s", "v" >> THEN File.table ELSE to_csv(File.table)

\* no pattern of either parser and no column gives a property type
NoTypeFound ==
    IF ReadAsTable THEN get_value(TableRead, type_names, NaN) = NaN
    ELSE /\ IsNone(File.text.email.property_type)
         /\ Tag = << ".", "p", "d", "f" >> =>
              /\ IsNone(File.text.pdf.property_type)
              /\ IsNone(File.text.pdf.header_property_type)

\* C16: on every path, when no pattern or column gives a property type the
\* record's property_type is "single-family".
C16_TypeDefaultsToSingleFamily ==
    (Parsed /\ NoTypeFound) => Record.property_type = single_family

\* file_parser.py lines 108-115: the Property of parse_pdf_content is the one
\* parse_pdf_file returns
PdfContentUsed ==
    /\ ~ByEmail
    /\ Tag = << ".", "p", "d", "f" >>
    /\ parse_pdf_content(File.text.pdf).kind = "return"
    /\ \/ RatLt(Zero, parse_pdf_content(File.text.pdf).value.purchase_price)
       \/ parse_pdf_content(File.text.pdf).value.address # unknown_address

\* the state token the parser that made the record extracted, None when it
\* found none
StateToken ==
    IF PdfContentUsed THEN extract_flexible_value(File.text.pdf.state, None)
    ELSE IF address_components(extract_field(File.text.email.address, not_available)).state_abbr
              = not_available
      THEN None
    ELSE Some(address_components(extract_field(File.text.email.address, not_available)).state_abbr)

Recognized(token) == \E i \in DOMAIN state_map : state_map[i][1] = upper(token)

\* C18: on the text paths a state token that is a two-letter abbreviation of
\* the 50-state table, in any letter case, gives the full state name; any
\* other token is passed through as it is; and without a token the state is
\* "N/A" or "Unknown".
C18_StateIsFullName ==
    (Parsed /\ ReadAsText) =>
        IF IsNone(StateToken) THEN Record.state \in {not_available, unknown_place}
        ELSE IF Recognized(Val(StateToken))
          THEN Record.state = get(state_map, upper(Val(StateToken)), << >>)
        ELSE Record.state = Val(StateToken)

\* the description a parser found, before any cut: the cell of the table
\* (file_parser.py line 189), the lines parse_pdf_file collected (line 103),
\* or the capture of parse_email_alert (email_parser.py line 310)
FoundDescription ==
    IF ReadAsTable
      THEN str(get_value(TableRead, description_names, Str(csv_description)))
    ELSE IF ~ByEmail /\ Tag = << ".", "p", "d", "f" >> /\ join(Words(File.text.collected)) # << >>
      THEN join(Words(File.text.collected))
    ELSE IF PdfContentUsed THEN pdf_description
    ELSE extract_field(File.text.email.description, default_description)

endswith(text, suffix) ==
    Len(text) >= Len(suffix) /\ SubSeq(text, Len(text) - Len(suffix) + 1, Len(text)) = suffix

\* C19: on every path the description of the record is at most 500
\* characters long, and a description that was cut ends with "...".
C19_DescriptionAtMost500 ==
    Parsed =>
        /\ Len(Record.description) <= 500
        /\ Record.description # FoundDescription =>
              endswith(Record.description, << ".", ".", "." >>)

\* the number of bathrooms the input gives: the cell of the table
\* (file_parser.py line 183), or the first capture that is a number
\* (pdf_parser_helper.py line 179, email_parser.py line 249)
FoundBathrooms ==
    IF ReadAsTable THEN clean_numeric(get_value(TableRead, bathroom_names, Integer(0)))
    ELSE IF PdfContentUsed THEN pdf_extract_float(File.text.pdf.bathrooms)
    ELSE extract_float(File.text.email.bathrooms)

\* C20: every Property an extraction returns has a purchase price, monthly
\* rent, bedrooms, bathrooms and square footage of at least 0, whatever the
\* text or the cells are, and keeps the bathrooms the input gives, fraction
\* included.
C20_RecordInRange ==
    Parsed =>
        /\ \A number \in { Record.purchase_price, Record.monthly_rent, Record.bedrooms,
                           Record.bathrooms, Record.square_footage } : RatLe(Zero, number)
        /\ Record.bathrooms = FoundBathrooms

\* email_parser.py lines 53-55: the number a captured price is, None when
\* float() rejects it
price_value(capture) == ParseFloat(Remove(Remove(capture, ","), "$"))

\* email_parser.py line 66: the number a captured count is
number_value(capture) == ParseFloat(capture)

\* pdf_parser_helper.py lines 44-46
pdf_price_value(capture) == ParseFloat(strip(Remove(Remove(Remove(capture, ","), "$"), " ")))

\* pdf_parser_helper.py lines 61-63
pdf_number_value(capture) == ParseFloat(strip(Remove(Remove(capture, ","), " ")))

\* the value of the first capture, in the order of the pattern list, that is
\* a number, and the default when none is
FirstParsed(captures, Value(_), default) ==
    LET parsed == {i \in DOMAIN captures : ~IsNone(Value(captures[i]))}
    IN  IF parsed = {} THEN default
        ELSE Val(Value(captures[CHOOSE i \in parsed : \A j \in parsed : i <= j]))

\* the upload holds a text that reached a parser
TextRead == ReadAsText /\ (ByEmail \/ (File.readable /\ (Tag = << ".", "p", "d", "f" >> => ~File.text.blank)))

\* C21: every field comes from the first pattern, in list order, that matches
\* and, for a number, parses; a capture that does not parse is skipped; the
\* default is returned only when no pattern yields a value; and a parse
\* failure never aborts the extraction of the record.
C21_FirstParsingPatternWins ==
    (Extracted /\ TextRead) =>
        /\ Parsed
        /\ IF PdfContentUsed
             THEN /\ Record.purchase_price = FirstParsed(File.text.pdf.price, pdf_price_value, Zero)
                  /\ Record.monthly_rent = FirstParsed(File.text.pdf.rent, pdf_price_value, Zero)
                  /\ Record.bedrooms = Truncated(FirstParsed(File.text.pdf.bedrooms, pdf_number_value, Zero))
                  /\ Record.bathrooms = FirstParsed(File.text.pdf.bathrooms, pdf_number_value, Zero)
                  /\ Record.year_built = Truncated(FirstParsed(File.text.pdf.year_built, pdf_number_value, Zero))
                  /\ Record.address = Val(extract_flexible_value(File.text.pdf.address, Some(unknown_address)))
             ELSE /\ Record.purchase_price = FirstParsed(File.text.email.price, price_value, Zero)
                  /\ Record.monthly_rent = FirstParsed(File.text.email.rent, price_value, Zero)
                  /\ Record.bedrooms = Truncated(FirstParsed(File.text.email.bedrooms, number_value, Zero))
                  /\ Record.bathrooms = FirstParsed(File.text.email.bathrooms, number_value, Zero)
                  /\ Record.year_built = Truncated(FirstParsed(File.text.email.year_built, number_value, Zero))
                  /\ Record.address = extract_field(File.text.email.address, not_available)

\* the number a matched token is once "$", "," and blanks are taken out
CleanedValue(token) ==
    ParseFloat(strip(Remove(Remove(Remove(token, ","), "$"), " ")))

\* the first token the patterns of a field matched is a number once cleaned
Matched(captures) == captures # << >> /\ ~IsNone(CleanedValue(captures[1]))

\* what the parser that made the record matched
Captures == IF PdfContentUsed THEN File.text.pdf ELSE File.text.email

\* C22: on every path and for every numeric field, currency symbols,
\* thousands separators and blanks are stripped from the matched token
\* before it is parsed: a token such as "1,200" or "$250,000" gives 1200 or
\* 250000 and is not rejected.
C22_SeparatorsAreStripped ==
    (Extracted /\ TextRead /\ Parsed) =>
        /\ Matched(Captures.price) =>
              Record.purchase_price = Val(CleanedValue(Captures.price[1]))
        /\ Matched(Captures.rent) =>
              Record.monthly_rent = Val(CleanedValue(Captures.rent[1]))
        /\ Matched(Captures.bedrooms) =>
              Record.bedrooms = Truncated(Val(CleanedValue(Captures.bedrooms[1])))
        /\ Matched(Captures.bathrooms) =>
              Record.bathrooms = Val(CleanedValue(Captures.bathrooms[1]))
        /\ Matched(Captures.year_built) =>
              Record.year_built = Truncated(Val(CleanedValue(Captures.year_built[1])))
        /\ (Matched(Captures.sqft) /\ RatLe(Rat(500, 1), Val(CleanedValue(Captures.sqft[1])))) =>
              Record.square_footage = Truncated(Val(CleanedValue(Captures.sqft[1])))
        /\ (Matched(Captures.lot_size) /\ RatLt(Zero, Val(CleanedValue(Captures.lot_size[1])))) =>
              Record.lot_size = Some(Truncated(Val(CleanedValue(Captures.lot_size[1]))))

\* the record is the one parse_email_alert made
EmailParsed == Extracted /\ TextRead /\ Parsed /\ ~PdfContentUsed

\* the address parse_email_alert found, "N/A" when it found none, and its
\* parts between ", "
FoundAddress == extract_field(File.text.email.address, not_available)

Parts == SplitOn(FoundAddress, << ",", " " >>)

\* the whitespace-separated tokens of the third part
Tokens == Words(Parts[3])

sample_address == << "1", "2", "3", " ", "M", "a", "i", "n", " ", "S", "t", ",", " ", "S", "p", "r", "i", "n", "g", "f", "i", "e", "l", "d", ",", " ", "I", "L", " ", "6", "2", "7", "0", "4" >>

\* C23: parse_email_alert splits the address on ", ".  With 3 or more parts
\* the city is part[1], the state abbreviation the first token of part[2]
\* and the zip code its second token, each "N/A" when the token is missing;
\* with 2 parts the city is part[1] and state and zip code are "N/A"; with
\* fewer parts or no address all three are "N/A".  "123 Main St,
\* Springfield, IL 62704" gives Springfield, Illinois, 62704.
C23_AddressDecomposition ==
    EmailParsed =>
        /\ IF FoundAddress = not_available \/ Len(Parts) < 2
             THEN /\ Record.city = not_available
                  /\ Record.state = not_available
                  /\ Record.zip_code = not_available
           ELSE IF Len(Parts) = 2
             THEN /\ Record.city = strip(Parts[2])
                  /\ Record.state = not_available
                  /\ Record.zip_code = not_available
           ELSE /\ Record.city = strip(Parts[2])
                /\ Record.state =
                      IF Len(Tokens) = 0 THEN not_available
                      ELSE IF Recognized(Tokens[1]) THEN get(state_map, upper(Tokens[1]), << >>)
                      ELSE Tokens[1]
                /\ Record.zip_code = IF Len(Tokens) < 2 THEN not_available ELSE Tokens[2]
        /\ FoundAddress = sample_address =>
              /\ Record.city = << "S", "p", "r", "i", "n", "g", "f", "i", "e", "l", "d" >>
              /\ Record.state = << "I", "l", "l", "i", "n", "o", "i", "s" >>
              /\ Record.zip_code = << "6", "2", "7", "0", "4" >>

\* the sample address was decomposed
C23_Witness == EmailParsed /\ FoundAddress = sample_address

\* a record was made of the text of the upload
TextParsed == Extracted /\ TextRead /\ Parsed

\* the square footage the primary patterns give in the body of the text
BodySqft ==
    IF PdfContentUsed THEN Truncated(FirstParsed(File.text.pdf.sqft, pdf_number_value, Zero))
    ELSE Truncated(FirstParsed(File.text.email.sqft, number_value, Zero))

\* the square footage the header patterns give in the first 10 lines
HeaderSqft == Truncated(FirstParsed(File.text.pdf.header_sqft, pdf_number_value, Zero))

\* the lot size the text gives
LotSize ==
    IF PdfContentUsed THEN Truncated(FirstParsed(File.text.pdf.lot_size, pdf_number_value, Zero))
    ELSE Truncated(FirstParsed(File.text.email.lot_size, number_value, Zero))

\* the body value, or the header value when the body value is under 500 and
\* the header value exceeds it (PDF only)
AfterHeader ==
    IF PdfContentUsed /\ RatLt(BodySqft, Rat(500, 1)) /\ RatLt(BodySqft, HeaderSqft)
      THEN HeaderSqft
      ELSE BodySqft

\* C24: in the PDF path a body value of at least 500 is kept; under 500 the
\* header value replaces it only when it is larger; then, in the PDF and the
\* e-mail path, a square footage still 0 is replaced by a positive lot size.
\* The square footage returned is never smaller than the body value, and it
\* is 0 only when lot_size is None.
C24_SquareFootageResolution ==
    TextParsed =>
        /\ Record.square_footage =
              IF AfterHeader = Zero /\ RatLt(Zero, LotSize) THEN LotSize ELSE AfterHeader
        /\ RatLe(BodySqft, Record.square_footage)
        /\ Record.square_footage = Zero => Record.lot_size = None

\* a body value under 500 with a smaller header value, which is not taken
C24_Witness ==
    /\ TextParsed
    /\ PdfContentUsed
    /\ RatLt(BodySqft, Rat(500, 1))
    /\ RatLt(Zero, HeaderSqft)
    /\ RatLt(HeaderSqft, BodySqft)
    /\ Record.square_footage = BodySqft

Distinct(list) == \A i, j \in DOMAIN list : list[i] = list[j] => i = j

\* C25: image_urls has at most 3 entries, all distinct and all starting with
\* "http"; source_links has at most 3 entries with distinct URLs, none
\* holding a blocklisted keyword in any letter case, each of type "listing",
\* "company" or "external".
C25_LinksAndImages ==
    (Extracted /\ Outcome.kind = "return") =>
        /\ Len(Record.image_urls) <= 3
        /\ Distinct(Record.image_urls)
        /\ \A i \in DOMAIN Record.image_urls :
              startswith(Record.image_urls[i], << "h", "t", "t", "p" >>)
        /\ Len(Record.source_links) <= 3
        /\ Distinct([i \in DOMAIN Record.source_links |-> Record.source_links[i].url])
        /\ \A i \in DOMAIN Record.source_links :
              /\ ~any_in(unwanted_keywords, lower(Record.source_links[i].url))
              /\ Record.source_links[i].type \in {"listing", "company", "external"}

\* a text with more than three links worth keeping, a link given twice, an
\* unwanted link and an image without "http": three links are returned
C25_Witness ==
    /\ TextParsed
    /\ ~PdfContentUsed
    /\ Len(categorized_links(File.text.email.links, {})) > 3
    /\ ~Distinct(File.text.email.links)
    /\ \E i \in DOMAIN File.text.email.links :
          any_in(unwanted_keywords, lower(File.text.email.links[i]))
    /\ \E i \in DOMAIN File.text.email.images :
          ~startswith(File.text.email.images[i], << "h", "t", "t", "p" >>)
    /\ Len(Record.source_links) = 3
    /\ Len(Record.image_urls) = 1

\* the record was made of the first row of the table
TableParsed == Parsed /\ ReadAsTable

\* the cell holds a value: it is not null and not a blank text
Filled(value) == value.kind # "nan" /\ (value.kind = "str" => strip(value.text) # << >>)

\* the pairs of a synonym and a column whose name holds it, in any letter
\* case, with a filled cell
Found(names) ==
    {pair \in (DOMAIN names) \X (DOMAIN TableRead) :
        /\ Contains(lower(names[pair[1]]), lower(TableRead[pair[2]].name))
        /\ Filled(TableRead[pair[2]].value)}

\* the first of them: the earliest synonym, and for it the earliest column
First(names) ==
    CHOOSE pair \in Found(names) :
        \A other \in Found(names) :
            \/ pair[1] < other[1]
            \/ pair[1] = other[1] /\ pair[2] <= other[2]

\* the text of the cell a field is taken from, or of its default
Taken(names, default) ==
    IF Found(names) = {} THEN default
    ELSE IF TableRead[First(names)[2]].value.kind = "str"
      THEN strip(TableRead[First(names)[2]].value.text)
    ELSE NumberText(TableRead[First(names)[2]].value)

\* the number of the cell a field is taken from: the cell when it is a
\* number, the cleaned text when that is one, and else 0
TakenNumber(names) ==
    IF Found(names) = {} THEN Zero
    ELSE IF TableRead[First(names)[2]].value.kind # "str"
      THEN TableRead[First(names)[2]].value.number
    ELSE IF IsNone(CleanedValue(TableRead[First(names)[2]].value.text)) THEN Zero
    ELSE Val(CleanedValue(TableRead[First(names)[2]].value.text))

WithoutStr(p) ==
    [ p EXCEPT !.adr = None, !.occupancy_rate = None, !.property_taxes = None,
               !.insurance = None, !.utilities = None, !.management = None,
               !.maintenance = None, !.cleaning = None, !.supplies = None,
               !.other_expenses = None ]

\* what analyze_deal gives for it under the criteria the run loaded
LongTermOutcome == analyze_deal(WithoutStr(property_data), criteria)

LongTermFields ==
    { "calculated_downpayment", "total_cash_needed", "passes_1_percent_rule", "cash_flow",
      "cash_flow_positive", "coc_return", "coc_meets_benchmark", "coc_meets_minimum",
      "cap_rate", "cap_meets_benchmark", "cap_meets_minimum" }

\* C27: for two Properties that differ only in adr, occupancy_rate and the
\* eight expense overrides analyze_deal returns the same long-term metrics
\* and flags, and the one with STR data meets the criteria only if the one
\* without does.
C27_StrDataLeavesLongTermMetrics ==
    (pc # "start" /\ LongTermOutcome.kind = "return") =>
        /\ Returned
        /\ \A field \in LongTermFields : analysis[field] = LongTermOutcome.value[field]
        /\ analysis.meets_criteria => LongTermOutcome.value.meets_criteria

\* values the financing fields of a Property can be given, the defaults of
\* real_estate_data.py lines 26-29 among them
FinancingValues ==
    [ downpayment_percentage : {Rat(20, 100), Rat(50, 100)},
      closing_costs_percentage : {Rat(5, 100), Zero},
      initial_fixed_costs_percentage : {Rat(1, 100), Rat(10, 100)},
      maintenance_reserve_percentage : {Rat(5, 100), Rat(25, 100)} ]

\* the Property with other financing fields
WithFinancing(p, financing) ==
    [ p EXCEPT !.downpayment_percentage = financing.downpayment_percentage,
               !.closing_costs_percentage = financing.closing_costs_percentage,
               !.initial_fixed_costs_percentage = financing.initial_fixed_costs_percentage,
               !.maintenance_reserve_percentage = financing.maintenance_reserve_percentage ]

\* the metrics and verdicts of an outcome: the DealAnalysis without the
\* Property it carries
Metrics(outcome) ==
    IF outcome.kind = "return" THEN Return([outcome.value EXCEPT !.property = << >>])
    ELSE outcome

\* C28: two Properties that differ only in their own downpayment,
\* closing-cost, initial-fixed-cost and maintenance-reserve percentages get
\* the same metrics and verdicts: every percentage comes from the criteria.
C28_OwnFinancingFieldsUnread ==
    pc # "start" =>
        \A financing \in FinancingValues :
            Metrics(analyze_deal(WithFinancing(property_data, financing), criteria))
                = Metrics(deal_analysis)

\* the criteria give a downpayment other than the Property's own 20% of a
\* positive price
C28_Witness ==
    /\ Returned
    /\ property_data.purchase_price > 0
    /\ analysis.calculated_downpayment
          # Scale(property_data.purchase_price, property_data.downpayment_percentage)

(***************************************************************************)
(* Properties of update_investment_criteria                                *)
(***************************************************************************)
CocSupplied(new_criteria) ==
    ~IsNone(new_criteria.coc_return_min) /\ ~IsNone(new_criteria.coc_return_max)

CapSupplied(new_criteria) ==
    ~IsNone(new_criteria.cap_rate_min) /\ ~IsNone(new_criteria.cap_rate_max)

PriceSupplied(new_criteria) == ~IsNone(new_criteria.price_max)

\* the criteria a call names
NamedCriteria(new_criteria) ==
    (IF CocSupplied(new_criteria) THEN {"coc_minimum_min", "coc_minimum_max"} ELSE {})
        \cup (IF CapSupplied(new_criteria) THEN {"cap_minimum"} ELSE {})
        \cup (IF PriceSupplied(new_criteria) THEN {"max_purchase_price"} ELSE {})

\* load_investment_criteria returns the supplied values for the named criteria
SuppliedValuesLoaded(after, new_criteria) ==
    /\ CocSupplied(new_criteria) =>
          /\ Has(after, "coc_minimum_min") /\ Has(after, "coc_minimum_max")
          /\ after["coc_minimum_min"] = Val(new_criteria.coc_return_min)
          /\ after["coc_minimum_max"] = Val(new_criteria.coc_return_max)
    /\ CapSupplied(new_criteria) =>
          /\ Has(after, "cap_minimum")
          /\ after["cap_minimum"] = Val(new_criteria.cap_rate_min)
    /\ PriceSupplied(new_criteria) =>
          /\ Has(after, "max_purchase_price")
          /\ Rat(after["max_purchase_price"], 100) = Val(new_criteria.price_max)

\* the criteria of keys are what they were
Unchanged(before, after, keys) ==
    \A key \in keys :
        /\ Has(before, key) <=> Has(after, key)
        /\ Has(before, key) => after[key] = before[key]

AllCriteria(before, after) == DOMAIN before \cup DOMAIN after

\* C30: a successful update makes load_investment_criteria return the
\* supplied COC minimum range, cap-rate minimum and max purchase price and
\* leaves every other criterion, the benchmark ranges among them, as it was
\* loaded before; a failed update reports success false and leaves the
\* criteria file as it was.
C30_UpdateChangesOnlyNamedCriteria ==
    \A filepath \in FilePaths, new_criteria \in NewCriteria :
        LET result == update_result(filepath, criteria_file, new_criteria)
            before == load_investment_criteria(criteria_file)
            after == load_investment_criteria(result.file)
        IN  IF result.success
              THEN /\ SuppliedValuesLoaded(after, new_criteria)
                   /\ Unchanged(before, after,
                                AllCriteria(before, after) \ NamedCriteria(new_criteria))
              ELSE result.file = criteria_file

(***************************************************************************)
(* Properties of normalize_property_type applied to its own result         *)
(***************************************************************************)
\* the result of normalizing the normalized type once more
Renormalized == normalize_property_type(normalized_type)

\* C29: normalize_property_type is idempotent: normalizing the type it
\* returned gives that type again, for empty, blank, mixed-case and
\* unrecognized texts alike.
C29_NormalizationIdempotent ==
    Normalized => Renormalized = Val(normalized_type)

====
